---------------------------- MODULE Spec2Model ----------------------------
(***************************************************************************)
(* groot: a model of the permission-faking filesystem driver (grootfs),    *)
(* of the namespace-entry choreography (coordinator, Privilege-Map Helper, *)
(* Mount Helper, session processes) and of the sub-ID table builder.       *)
(*                                                                         *)
(* Several specifications share the module:                                *)
(*   SpecFS      the driver's operations on one backing directory          *)
(*   SpecNS      the processes of groot_setup_ns and their sockets         *)
(*   SpecIdmap   make_idmap run line by line over a sub-ID file            *)
(*   SpecCaps    keep_caps                                                 *)
(*   SpecReaddir grootfs_readdir over one directory                        *)
(*   SpecXattr   the extended-attribute operations on one file             *)
(*   SpecLaws    sequences of updates on one file, compared by getattr     *)
(*   SpecRace    one chmod and one chown on one file, overlapping          *)
(*   SpecSignal  one session process and the signals delivered to it       *)
(*   SpecList    one grootfs_listxattr call                                *)
(*   SpecOpen    open, create, fgetattr and release on one directory       *)
(*   SpecPreload the preload constructor along a chain of execs            *)
(* Each specification holds the variables of the others constant.          *)
(***************************************************************************)
EXTENDS Integers, Sequences, FiniteSets, TLC

VARIABLES
    \* ---- filesystem driver (SpecFS)
    fs,         \* GRootFS: max_uid, max_gid (basefd is the one wrap root)
    dirents,    \* wrap root: name -> inode number, 0 when the name is absent
    inodes,     \* backing inodes: kind, real mode bits, real owner, user.grootfs
    sidecar,    \* .groot.symlink.<dev>_<ino> files of the wrap root, by <ino>
    pending,    \* a do_open between its O_EXCL attempt and its retry
    claims,     \* history: what the callers claimed for each inode
    last,       \* history: the operation that just returned, and its result
    nops,       \* number of steps taken
    \* ---- namespace entry (SpecNS)
    ns,
    \* ---- make_idmap (SpecIdmap)
    im,
    \* ---- keep_caps (SpecCaps)
    kc,
    \* ---- readdir (SpecReaddir)
    rd,
    \* ---- extended attributes (SpecXattr)
    xa,
    \* ---- getattr after sequences of updates (SpecLaws)
    lw,
    \* ---- overlapping chmod and chown (SpecRace)
    rc,
    \* ---- signals of a session process (SpecSignal)
    sg,
    \* ---- grootfs_listxattr (SpecList)
    lx,
    \* ---- open file handles (SpecOpen)
    oh,
    \* ---- the preload constructor along a chain of execs (SpecPreload)
    pl

fsvars == <<fs, dirents, inodes, sidecar, pending, claims, last, nops>>
vars == <<fs, dirents, inodes, sidecar, pending, claims, last, nops, ns, im, kc, rd, xa, lw, rc, sg, lx, oh, pl>>
\* what the steps of one part leave alone of the other parts
notFS == <<ns, im, kc, rd, xa, lw, rc, sg, lx, oh, pl>>
notNS == <<fsvars, im, kc, rd, xa, lw, rc, sg, lx, oh, pl>>
notIdmap == <<fsvars, ns, kc, rd, xa, lw, rc, sg, lx, oh, pl>>
notCaps == <<fsvars, ns, im, rd, xa, lw, rc, sg, lx, oh, pl>>
notReaddir == <<fsvars, ns, im, kc, xa, lw, rc, sg, lx, oh, pl>>
notXattr == <<fsvars, ns, im, kc, rd, lw, rc, sg, lx, oh, pl>>
notLaws == <<fsvars, ns, im, kc, rd, xa, rc, sg, lx, oh, pl>>
notRace == <<fsvars, ns, im, kc, rd, xa, lw, sg, lx, oh, pl>>
notSignal == <<fsvars, ns, im, kc, rd, xa, lw, rc, lx, oh, pl>>
notList == <<fsvars, ns, im, kc, rd, xa, lw, rc, sg, oh, pl>>
notOpen == <<fsvars, ns, im, kc, rd, xa, lw, rc, sg, lx, pl>>
notPreload == <<fsvars, ns, im, kc, rd, xa, lw, rc, sg, lx, oh>>

(***************************************************************************)
(* Bounds of the model.                                                    *)
(***************************************************************************)
MaxOps == 2          \* steps of one behaviour of SpecFS
MaxIno == 3          \* inode numbers 1..MaxIno of the backing filesystem

Names == {"a", "b"}  \* entries of the wrap root the callers name
Ino == 1..MaxIno

(***************************************************************************)
(* Numbers of the program and of the system headers it uses.               *)
(***************************************************************************)
S_IFDIR == 16384            \* 0040000
S_IFREG == 32768            \* 0100000
S_IFLNK == 40960            \* 0120000
S_IXUSR == 64               \* 0100
PERM_MASK_SIZE == 4096      \* ST_MODE_PERM_MASK = 07777, x & mask = x % 4096
GROOTFS_FLAGS_UID_SET == 1
GROOTFS_FLAGS_GID_SET == 2
GROOTFS_FLAGS_MODE_SET == 4
RECORD_SIZE == 16           \* sizeof (GRootFSData)
NO_ID == -1                 \* chown's "leave unchanged" argument
NS_MAX_ID == 3              \* highest mapped id of an in-namespace mount
NOBODY == 65534             \* real owner the namespace does not map

EOK == 0
ENOENT == 2
EIO == 5
EEXIST == 17
EPERM == 1

\* x & ST_MODE_PERM_MASK and x & ~ST_MODE_PERM_MASK
PermBits(x) == x % PERM_MASK_SIZE
TypeBits(x) == x - (x % PERM_MASK_SIZE)
HasBit(x, b) == (x \div b) % 2 = 1
OrBit(x, b) == IF HasBit(x, b) THEN x ELSE x + b

\* get_real_mode without "for dirs we always set x"
mutant_get_real_mode(is_dir, executable_default) ==
    IF executable_default THEN 493 ELSE 420

\* src/groot.c:301 get_real_mode
get_real_mode(is_dir, executable_default) ==
    LET real_mode == 420      \* S_IRUSR | S_IRGRP | S_IROTH | S_IWUSR = 0644
    IN  IF is_dir \/ executable_default
        THEN real_mode + 73   \* | S_IXUSR | S_IXGRP | S_IXOTH
        ELSE real_mode

(***************************************************************************)
(* The fake record and its 16-byte big-endian form.                        *)
(***************************************************************************)
ZeroData == [flags |-> 0, uid |-> 0, gid |-> 0, mode |-> 0]

htonl(x) == << (x \div 16777216) % 256, (x \div 65536) % 256,
               (x \div 256) % 256, x % 256 >>
ntohl(b) == b[1] * 16777216 + b[2] * 65536 + b[3] * 256 + b[4]

\* struct order: flags, uid, gid, mode
fake_data_htonl(data) ==
    htonl(data.flags) \o htonl(data.uid) \o htonl(data.gid) \o htonl(data.mode)

fake_data_ntohl(bytes) ==
    [flags |-> ntohl(SubSeq(bytes, 1, 4)),
     uid   |-> ntohl(SubSeq(bytes, 5, 8)),
     gid   |-> ntohl(SubSeq(bytes, 9, 12)),
     mode  |-> ntohl(SubSeq(bytes, 13, 16))]

\* an extended attribute: absent, or present with a value
NoAttr == [present |-> FALSE, val |-> << >>]
Attr(bytes) == [present |-> TRUE, val |-> bytes]
BadAttr == Attr(<<0, 0, 0, 1>>)      \* a record of the wrong length


(***************************************************************************)
(* The backing directory.  A backing state bk is [d, i, s]: the wrap       *)
(* root's entries, the inodes, and the sidecar files of the root.          *)
(***************************************************************************)
FreeInode == [kind |-> "free", mode |-> 0, uid |-> 0, gid |-> 0, xattr |-> NoAttr]
NoSidecar == [exists |-> FALSE, xattr |-> NoAttr]
Backing == [d |-> dirents, i |-> inodes, s |-> sidecar]

KindBits(kind) ==
    CASE kind = "dir" -> S_IFDIR
      [] kind = "lnk" -> S_IFLNK
      [] OTHER        -> S_IFREG

Links(bk, i) == {n \in Names : bk.d[n] = i}

\* fstatat (dirfd, basename, &st, AT_SYMLINK_NOFOLLOW)
fstatat(bk, name) ==
    LET i == bk.d[name]
    IN  IF i = 0
        THEN [res |-> ENOENT, st_mode |-> 0, st_uid |-> 0, st_gid |-> 0, st_ino |-> 0]
        ELSE [res |-> EOK,
              st_mode |-> KindBits(bk.i[i].kind) + bk.i[i].mode,
              st_uid |-> bk.i[i].uid, st_gid |-> bk.i[i].gid, st_ino |-> i]

S_ISLNK(m) == TypeBits(m) = S_IFLNK
S_ISDIR(m) == TypeBits(m) = S_IFDIR

\* src/groot.c:344 apply_fake_data
apply_fake_data(st, data) ==
    LET uid1  == IF HasBit(data.flags, GROOTFS_FLAGS_UID_SET) THEN data.uid ELSE st.st_uid
        gid1  == IF HasBit(data.flags, GROOTFS_FLAGS_GID_SET) THEN data.gid ELSE st.st_gid
        mode1 == IF HasBit(data.flags, GROOTFS_FLAGS_MODE_SET)
                 THEN TypeBits(st.st_mode) + PermBits(data.mode)
                 ELSE st.st_mode
    IN  [st EXCEPT !.st_mode = mode1,
                   !.st_uid = IF uid1 > fs.max_uid THEN 0 ELSE uid1,
                   !.st_gid = IF gid1 > fs.max_gid THEN 0 ELSE gid1]

\* src/groot.c:368 get_fake_data: lgetxattr on a file that may not exist
get_fake_data(exists, attr, allow_noent) ==
    IF ~exists
    THEN IF allow_noent THEN [res |-> EOK, data |-> ZeroData]
                        ELSE [res |-> ENOENT, data |-> ZeroData]
    ELSE IF ~attr.present
    THEN [res |-> EOK, data |-> ZeroData]                 \* ENODATA
    ELSE IF Len(attr.val) # RECORD_SIZE
    THEN [res |-> EIO, data |-> ZeroData]                 \* ERANGE, wrong size
    ELSE [res |-> EOK, data |-> fake_data_ntohl(attr.val)]

\* src/groot.c:411 get_fake_dataf: fgetxattr on an open descriptor
get_fake_dataf(attr) ==
    IF ~attr.present
    THEN [res |-> EOK, data |-> ZeroData]
    ELSE IF Len(attr.val) # RECORD_SIZE
    THEN [res |-> EIO, data |-> ZeroData]
    ELSE [res |-> EOK, data |-> fake_data_ntohl(attr.val)]

NoInfo(res) ==
    [res |-> res, exists |-> FALSE, ino |-> 0, datafile |-> 0,
     st_data |-> [res |-> res, st_mode |-> 0, st_uid |-> 0, st_gid |-> 0, st_ino |-> 0],
     fake_data |-> ZeroData]

\* src/groot.c:533 _groot_path_info_init_base (datafile is the sidecar's <ino>)
groot_path_info_init_base(bk, st, by_fd, allow_noent) ==
    LET i == st.st_ino
        r == IF S_ISLNK(st.st_mode)
             THEN get_fake_data(bk.s[i].exists, bk.s[i].xattr, TRUE)
             ELSE IF by_fd
             THEN get_fake_dataf(bk.i[i].xattr)
             ELSE get_fake_data(TRUE, bk.i[i].xattr, allow_noent)
    IN  [res |-> IF r.res # EOK THEN EIO ELSE EOK,
         exists |-> TRUE, ino |-> i,
         datafile |-> IF S_ISLNK(st.st_mode) THEN i ELSE 0,
         st_data |-> IF r.res = EOK THEN apply_fake_data(st, r.data) ELSE st,
         fake_data |-> r.data]

\* src/groot.c:563 groot_path_info_init_path
groot_path_info_init_path(bk, path, allow_noent) ==
    LET st == fstatat(bk, path)
    IN  IF st.res # EOK
        THEN NoInfo(IF allow_noent THEN EOK ELSE st.res)
        ELSE groot_path_info_init_base(bk, st, FALSE, allow_noent)

\* src/groot.c:450 set_fake_data on the sidecar (ensure_exist) and
\* src/groot.c:593 groot_path_info_update_data; xok: lsetxattr succeeds
groot_path_info_update_data(bk, info, xok) ==
    LET att == Attr(fake_data_htonl(info.fake_data))
    IN  IF info.datafile # 0
        THEN [res |-> IF xok THEN EOK ELSE EIO,
              bk  |-> [bk EXCEPT !.s[info.datafile] =
                         [exists |-> TRUE,
                          xattr |-> IF xok THEN att ELSE bk.s[info.datafile].xattr]]]
        ELSE [res |-> IF xok THEN EOK ELSE EIO,
              bk  |-> IF xok THEN [bk EXCEPT !.i[info.ino].xattr = att] ELSE bk]

\* src/groot.c:618 grootfs_getattr
grootfs_getattr(bk, path) ==
    LET info == groot_path_info_init_path(bk, path, FALSE)
    IN  [res |-> info.res, st |-> info.st_data]


(***************************************************************************)
(* Inputs of the driver's operations.                                      *)
(***************************************************************************)
ModeArgs == {420, 2541, 33152}            \* chmod: 0644, 04755, S_IFREG | 0600
NewModes == {33188, 2541}                 \* create, mkdir: S_IFREG | 0644, 04755
UidArgs == {NO_ID, 1, 5}                  \* chown: 5 is above NS_MAX_ID
GidArgs == {NO_ID, 5}
Creds == {[uid |-> 1, gid |-> 2]}         \* fuse_get_context (): uid, gid
OpenFlags == {"O_RDWR", "O_CREAT", "O_CREAT_EXCL"}
DRIVER_ID == 0                            \* the driver's own (real) uid and gid

NoClaim == [has |-> FALSE, v |-> 0]
Claim(v) == [has |-> TRUE, v |-> v]
NoClaims == [uid |-> NoClaim, gid |-> NoClaim, mode |-> NoClaim]

NoSt == [res |-> EOK, st_mode |-> 0, st_uid |-> 0, st_gid |-> 0, st_ino |-> 0]
OpRec(op, path, res) ==
    [op |-> op, path |-> path, res |-> res, mode |-> 0, uid |-> NO_ID, gid |-> NO_ID,
     cred |-> [uid |-> 0, gid |-> 0], ino |-> 0, created |-> FALSE, st |-> NoSt]
Idle == [pc |-> "idle", path |-> "a", mode |-> 0, cred |-> [uid |-> 0, gid |-> 0]]

\* the entry `name` is removed; an inode without entries is freed
RemoveEntry(bk, name) ==
    LET i == bk.d[name]
        d1 == [bk.d EXCEPT ![name] = 0]
    IN  [bk EXCEPT !.d = d1,
                   !.i = IF \E n \in Names : d1[n] = i THEN bk.i
                         ELSE [bk.i EXCEPT ![i] = FreeInode]]

\* a new inode `i` of the driver's (or another process's) making at `name`
NewEntry(bk, name, i, kind, mode) ==
    [bk EXCEPT !.d[name] = i,
               !.i[i] = [kind |-> kind, mode |-> mode, uid |-> DRIVER_ID,
                         gid |-> DRIVER_ID, xattr |-> NoAttr]]

FreeInos(bk) == {i \in Ino : bk.i[i].kind = "free"}

\* the history of claims forgets the inodes that were freed
Forget(cl, bk) == [i \in Ino |-> IF bk.i[i].kind = "free" THEN NoClaims ELSE cl[i]]

Commit(bk, cl, op) ==
    /\ dirents' = bk.d
    /\ inodes' = bk.i
    /\ sidecar' = bk.s
    /\ claims' = Forget(cl, bk)
    /\ last' = IF op.res = EOK THEN op
               ELSE [OpRec(op.op, op.path, op.res) EXCEPT !.ino = op.ino,
                                                          !.created = op.created]
    /\ nops' = nops + 1
    /\ UNCHANGED <<fs, notFS>>

Ready == pending.pc = "idle" /\ nops < MaxOps

\* FUSE resolves symbolic links before it calls chmod, open and create
NotLink(path) == IF dirents[path] = 0 THEN TRUE ELSE inodes[dirents[path]].kind # "lnk"

(***************************************************************************)
(* getattr, chmod, chown                                                   *)
(***************************************************************************)
Getattr(path) ==
    /\ Ready
    /\ LET r == grootfs_getattr(Backing, path)
       IN  Commit(Backing, claims,
                  [OpRec("getattr", path, r.res) EXCEPT !.st = r.st, !.ino = dirents[path]])
    /\ UNCHANGED pending

\* grootfs_chmod assigning the mode flag instead of or-ing it in
mutant_grootfs_chmod(bk, path, mode, xok) ==
    LET info == groot_path_info_init_path(bk, path, FALSE)
        real_mode == get_real_mode(S_ISDIR(info.st_data.st_mode), HasBit(mode, S_IXUSR))
        bk1 == [bk EXCEPT !.i[info.ino].mode = real_mode]
        info1 == [info EXCEPT !.fake_data.mode = PermBits(mode),
                              !.fake_data.flags = GROOTFS_FLAGS_MODE_SET]
    IN  IF info.res # EOK THEN [res |-> info.res, bk |-> bk]
        ELSE IF bk.i[info.ino].uid # DRIVER_ID THEN [res |-> EPERM, bk |-> bk]
        ELSE groot_path_info_update_data(bk1, info1, xok)

\* src/groot.c:650 grootfs_chmod; returns [res, bk]
grootfs_chmod(bk, path, mode, xok) ==
    LET info == groot_path_info_init_path(bk, path, FALSE)
        real_mode == get_real_mode(S_ISDIR(info.st_data.st_mode), HasBit(mode, S_IXUSR))
        \* fchmodat (info.dirfd, info.basename, real_mode, 0): the owner may chmod
        bk1 == [bk EXCEPT !.i[info.ino].mode = real_mode]
        info1 == [info EXCEPT !.fake_data.mode = PermBits(mode),
                              !.fake_data.flags = OrBit(@, GROOTFS_FLAGS_MODE_SET)]
    IN  IF info.res # EOK THEN [res |-> info.res, bk |-> bk]
        ELSE IF bk.i[info.ino].uid # DRIVER_ID THEN [res |-> EPERM, bk |-> bk]
        ELSE groot_path_info_update_data(bk1, info1, xok)

Chmod(path, mode, xok) ==
    /\ Ready
    /\ NotLink(path)
    /\ LET r == grootfs_chmod(Backing, path, mode, xok)
           i == dirents[path]
       IN  Commit(r.bk,
                  IF r.res = EOK THEN [claims EXCEPT ![i].mode = Claim(PermBits(mode))]
                                 ELSE claims,
                  [OpRec("chmod", path, r.res) EXCEPT !.mode = mode, !.ino = i])
    /\ UNCHANGED pending

\* grootfs_chown assigning the flags instead of or-ing them in
mutant_grootfs_chown(bk, path, uid, gid, xok) ==
    LET info == groot_path_info_init_path(bk, path, FALSE)
        info1 == IF uid # NO_ID
                 THEN [info EXCEPT !.fake_data.uid = uid,
                                   !.fake_data.flags = GROOTFS_FLAGS_UID_SET]
                 ELSE info
        info2 == IF gid # NO_ID
                 THEN [info1 EXCEPT !.fake_data.gid = gid,
                                    !.fake_data.flags = GROOTFS_FLAGS_GID_SET]
                 ELSE info1
    IN  IF info.res # EOK THEN [res |-> info.res, bk |-> bk]
        ELSE groot_path_info_update_data(bk, info2, xok)

\* src/groot.c:684 grootfs_chown; returns [res, bk]
grootfs_chown(bk, path, uid, gid, xok) ==
    LET info == groot_path_info_init_path(bk, path, FALSE)
        info1 == IF uid # NO_ID
                 THEN [info EXCEPT !.fake_data.uid = uid,
                                   !.fake_data.flags = OrBit(@, GROOTFS_FLAGS_UID_SET)]
                 ELSE info
        info2 == IF gid # NO_ID
                 THEN [info1 EXCEPT !.fake_data.gid = gid,
                                    !.fake_data.flags = OrBit(@, GROOTFS_FLAGS_GID_SET)]
                 ELSE info1
    IN  IF info.res # EOK THEN [res |-> info.res, bk |-> bk]
        ELSE groot_path_info_update_data(bk, info2, xok)

Chown(path, uid, gid, xok) ==
    /\ Ready
    /\ LET r == grootfs_chown(Backing, path, uid, gid, xok)
           i == dirents[path]
           c1 == IF uid # NO_ID THEN [claims EXCEPT ![i].uid = Claim(uid)] ELSE claims
           c2 == IF gid # NO_ID THEN [c1 EXCEPT ![i].gid = Claim(gid)] ELSE c1
       IN  Commit(r.bk, IF r.res = EOK THEN c2 ELSE claims,
                  [OpRec("chown", path, r.res) EXCEPT !.uid = uid, !.gid = gid, !.ino = i])
    /\ UNCHANGED pending


(***************************************************************************)
(* mkdir, open and create                                                  *)
(***************************************************************************)
NewData(mode, cred) ==
    [flags |-> GROOTFS_FLAGS_MODE_SET + GROOTFS_FLAGS_UID_SET + GROOTFS_FLAGS_GID_SET,
     uid |-> cred.uid, gid |-> cred.gid, mode |-> PermBits(mode)]
NewClaims(mode, cred) ==
    [uid |-> Claim(cred.uid), gid |-> Claim(cred.gid), mode |-> Claim(PermBits(mode))]

\* grootfs_mkdir recording the real mode instead of the requested one
mutant_grootfs_mkdir(bk, path, mode, cred, i, xok) ==
    LET real_mode == get_real_mode(TRUE, FALSE)
        bk1 == NewEntry(bk, path, i, "dir", real_mode)
    IN  IF bk.d[path] # 0 THEN [res |-> EEXIST, bk |-> bk]
        ELSE IF ~xok THEN [res |-> EIO, bk |-> bk1]
        ELSE [res |-> EOK,
              bk |-> [bk1 EXCEPT !.i[i].xattr =
                        Attr(fake_data_htonl(NewData(real_mode, cred)))]]

\* grootfs_mkdir passing the requested mode to mkdirat
mutant_grootfs_mkdir_claimed(bk, path, mode, cred, i, xok) ==
    LET bk1 == NewEntry(bk, path, i, "dir", PermBits(mode))
    IN  IF bk.d[path] # 0 THEN [res |-> EEXIST, bk |-> bk]
        ELSE IF ~xok THEN [res |-> EIO, bk |-> bk1]
        ELSE [res |-> EOK,
              bk |-> [bk1 EXCEPT !.i[i].xattr = Attr(fake_data_htonl(NewData(mode, cred)))]]

\* src/groot.c:793 grootfs_mkdir; i is the inode number mkdirat gets
grootfs_mkdir(bk, path, mode, cred, i, xok) ==
    LET real_mode == get_real_mode(TRUE, FALSE)
        bk1 == NewEntry(bk, path, i, "dir", real_mode)
    IN  IF bk.d[path] # 0 THEN [res |-> EEXIST, bk |-> bk]
        ELSE IF ~xok THEN [res |-> EIO, bk |-> bk1]
        ELSE [res |-> EOK,
              bk |-> [bk1 EXCEPT !.i[i].xattr = Attr(fake_data_htonl(NewData(mode, cred)))]]

Mkdir(path, mode, cred, xok) ==
    /\ Ready
    /\ \E i \in FreeInos(Backing) :
         LET r == grootfs_mkdir(Backing, path, mode, cred, i, xok)
         IN  Commit(r.bk,
                    IF r.res = EOK THEN [claims EXCEPT ![i] = NewClaims(mode, cred)]
                                   ELSE claims,
                    [OpRec("mkdir", path, r.res) EXCEPT
                        !.mode = mode, !.cred = cred,
                        !.ino = IF r.res = EEXIST THEN 0 ELSE i,
                        !.created = r.res # EEXIST])
    /\ UNCHANGED pending

\* src/groot.c:996 do_open after a successful openat: the record of a created file
OpenFinish(bk, path, mode, cred, created_file, really_created, xok) ==
    LET i == bk.d[path]
        rec == [OpRec("open", path, EOK) EXCEPT
                   !.mode = mode, !.cred = cred, !.ino = i, !.created = really_created]
    IN  IF ~created_file
        THEN Commit(bk, claims, rec)
        ELSE IF ~xok
        THEN Commit(bk, claims, [rec EXCEPT !.res = EIO])
        ELSE Commit([bk EXCEPT !.i[i].xattr = Attr(fake_data_htonl(NewData(mode, cred)))],
                    [claims EXCEPT ![i] = NewClaims(mode, cred)], rec)

\* src/groot.c:965 do_open up to its first openat
Open(path, mode, flags, cred, xok) ==
    /\ Ready
    /\ NotLink(path)
    /\ LET o_creat == flags # "O_RDWR"
           o_excl == flags = "O_CREAT_EXCL"
           real_mode == get_real_mode(FALSE, HasBit(mode, S_IXUSR))
           exists == dirents[path] # 0
       IN  IF ~o_creat
           THEN /\ IF exists /\ inodes[dirents[path]].kind = "reg"
                   THEN OpenFinish(Backing, path, mode, cred, FALSE, FALSE, xok)
                   ELSE Commit(Backing, claims, OpRec("open", path, ENOENT))
                /\ UNCHANGED pending
           ELSE IF ~exists
           THEN \* openat with O_CREAT | O_EXCL creates the file
                /\ \E i \in FreeInos(Backing) :
                     OpenFinish(NewEntry(Backing, path, i, "reg", real_mode),
                                path, mode, cred, TRUE, TRUE, xok)
                /\ UNCHANGED pending
           ELSE IF o_excl
           THEN /\ Commit(Backing, claims, OpRec("open", path, EEXIST))
                /\ UNCHANGED pending
           ELSE \* EEXIST from the forced O_EXCL: retry without it
                /\ pending' = [pc |-> "retry", path |-> path, mode |-> mode, cred |-> cred]
                /\ nops' = nops + 1
                /\ UNCHANGED <<fs, dirents, inodes, sidecar, claims, last, notFS>>

\* src/groot.c:989 do_open: the second openat, with the caller's flags (O_CREAT)
OpenRetry(xok) ==
    /\ pending.pc = "retry"
    /\ LET path == pending.path
           real_mode == get_real_mode(FALSE, HasBit(pending.mode, S_IXUSR))
           created_file == FALSE     \* "We know the file existed"
       IN  IF dirents[path] # 0
           THEN IF inodes[dirents[path]].kind = "reg"
                THEN OpenFinish(Backing, path, pending.mode, pending.cred,
                                created_file, FALSE, xok)
                ELSE Commit(Backing, claims, OpRec("open", path, EIO))
           ELSE \E i \in FreeInos(Backing) :
                  OpenFinish(NewEntry(Backing, path, i, "reg", real_mode),
                             path, pending.mode, pending.cred, created_file, TRUE, xok)
    /\ pending' = Idle

(***************************************************************************)
(* unlink, rmdir, symlink, rename, link                                    *)
(***************************************************************************)
\* src/groot.c:826 grootfs_unlink
grootfs_unlink(bk, path) ==
    LET info == groot_path_info_init_path(bk, path, FALSE)
        bk1 == RemoveEntry(bk, path)
    IN  IF info.res # EOK THEN [res |-> info.res, bk |-> bk]
        ELSE IF bk.i[info.ino].kind = "dir" THEN [res |-> EIO, bk |-> bk]   \* EISDIR
        ELSE IF info.datafile # 0
        THEN [res |-> EOK, bk |-> [bk1 EXCEPT !.s[info.datafile] = NoSidecar]]
        ELSE [res |-> EOK, bk |-> bk1]

Unlink(path) ==
    /\ Ready
    /\ LET r == grootfs_unlink(Backing, path)
       IN  Commit(r.bk, claims, [OpRec("unlink", path, r.res) EXCEPT !.ino = dirents[path]])
    /\ UNCHANGED pending

\* the path under which the wrap root holds the sidecar of inode i; the driver
\* looks every path up in the backing directory, this one as any other
DatafilePath == ".groot.symlink"

\* src/groot.c:826 grootfs_unlink on the path of the sidecar of inode i: a
\* regular file of the wrap root, whose own record attribute is read first
grootfs_unlink_datafile(bk, i) ==
    IF ~bk.s[i].exists THEN [res |-> ENOENT, bk |-> bk]
    ELSE IF get_fake_data(TRUE, bk.s[i].xattr, FALSE).res # EOK THEN [res |-> EIO, bk |-> bk]
    ELSE [res |-> EOK, bk |-> [bk EXCEPT !.s[i] = NoSidecar]]

UnlinkDatafile(i) ==
    /\ Ready
    /\ sidecar[i].exists
    /\ LET r == grootfs_unlink_datafile(Backing, i)
       IN  Commit(r.bk, claims, [OpRec("unlink", DatafilePath, r.res) EXCEPT !.ino = i])
    /\ UNCHANGED pending

\* src/groot.c:851 grootfs_rmdir (the directories of the model are empty)
grootfs_rmdir(bk, path) ==
    IF bk.d[path] = 0 THEN [res |-> ENOENT, bk |-> bk]
    ELSE IF bk.i[bk.d[path]].kind # "dir" THEN [res |-> EIO, bk |-> bk]     \* ENOTDIR
    ELSE [res |-> EOK, bk |-> RemoveEntry(bk, path)]

Rmdir(path) ==
    /\ Ready
    /\ LET r == grootfs_rmdir(Backing, path)
       IN  Commit(r.bk, claims, [OpRec("rmdir", path, r.res) EXCEPT !.ino = dirents[path]])
    /\ UNCHANGED pending

\* src/groot.c:865 grootfs_symlink; i is the inode number symlinkat gets.
\* Returns [res, bk, wrote]: wrote tells whether the record reached the sidecar.
grootfs_symlink(bk, to, cred, i, xok) ==
    LET bk1 == NewEntry(bk, to, i, "lnk", 511)
        info == groot_path_info_init_path(bk1, to, FALSE)
        info1 == [info EXCEPT !.fake_data.uid = cred.uid, !.fake_data.gid = cred.gid,
                              !.fake_data.flags = GROOTFS_FLAGS_UID_SET + GROOTFS_FLAGS_GID_SET]
        u == groot_path_info_update_data(bk1, info1, xok)
    IN  IF bk.d[to] # 0 THEN [res |-> EEXIST, bk |-> bk, wrote |-> FALSE]
        ELSE IF info.res # EOK THEN [res |-> EOK, bk |-> bk1, wrote |-> FALSE]
        ELSE [res |-> EOK, bk |-> u.bk, wrote |-> u.res = EOK]

Symlink(to, cred, xok) ==
    /\ Ready
    /\ \E i \in FreeInos(Backing) :
         LET r == grootfs_symlink(Backing, to, cred, i, xok)
         IN  Commit(r.bk,
                    IF r.wrote
                    THEN [claims EXCEPT ![i] = [uid |-> Claim(cred.uid),
                                                gid |-> Claim(cred.gid), mode |-> NoClaim]]
                    ELSE claims,
                    [OpRec("symlink", to, r.res) EXCEPT
                        !.cred = cred, !.ino = IF r.res = EOK THEN i ELSE 0,
                        !.created = r.res = EOK])
    /\ UNCHANGED pending

\* the rename that drops the sidecar of the entry it moves
mutant_grootfs_rename(bk, from, to) ==
    LET i == bk.d[from]
        j == bk.d[to]
        d1 == [bk.d EXCEPT ![from] = 0, ![to] = i]
    IN  IF i = 0 THEN [res |-> ENOENT, bk |-> bk]
        ELSE IF j = i THEN [res |-> EOK, bk |-> bk]
        ELSE IF j # 0 /\ (bk.i[i].kind = "dir") # (bk.i[j].kind = "dir")
        THEN [res |-> EIO, bk |-> bk]
        ELSE [res |-> EOK,
              bk |-> [bk EXCEPT !.d = d1,
                                !.s[i] = NoSidecar,
                                !.i = IF j # 0 /\ ~\E n \in Names : d1[n] = j
                                      THEN [bk.i EXCEPT ![j] = FreeInode] ELSE bk.i]]

\* src/groot.c:892 grootfs_rename: renameat within the wrap root
grootfs_rename(bk, from, to) ==
    LET i == bk.d[from]
        j == bk.d[to]
        d1 == [bk.d EXCEPT ![from] = 0, ![to] = i]
    IN  IF i = 0 THEN [res |-> ENOENT, bk |-> bk]
        ELSE IF j = i THEN [res |-> EOK, bk |-> bk]
        ELSE IF j # 0 /\ (bk.i[i].kind = "dir") # (bk.i[j].kind = "dir")
        THEN [res |-> EIO, bk |-> bk]                     \* EISDIR, ENOTDIR
        ELSE [res |-> EOK,
              bk |-> [bk EXCEPT !.d = d1,
                                !.i = IF j # 0 /\ ~\E n \in Names : d1[n] = j
                                      THEN [bk.i EXCEPT ![j] = FreeInode] ELSE bk.i]]

Rename(from, to) ==
    /\ Ready
    /\ from # to
    /\ LET r == grootfs_rename(Backing, from, to)
       IN  Commit(r.bk, claims, [OpRec("rename", from, r.res) EXCEPT !.ino = dirents[from]])
    /\ UNCHANGED pending

\* src/groot.c:907 grootfs_link: linkat with flags 0 links a symlink itself
grootfs_link(bk, from, to) ==
    LET i == bk.d[from]
    IN  IF i = 0 THEN [res |-> ENOENT, bk |-> bk]
        ELSE IF bk.d[to] # 0 THEN [res |-> EEXIST, bk |-> bk]
        ELSE IF bk.i[i].kind = "dir" THEN [res |-> EPERM, bk |-> bk]
        ELSE [res |-> EOK, bk |-> [bk EXCEPT !.d[to] = i]]

Link(from, to) ==
    /\ Ready
    /\ from # to
    /\ LET r == grootfs_link(Backing, from, to)
       IN  Commit(r.bk, claims, [OpRec("link", from, r.res) EXCEPT !.ino = dirents[from]])
    /\ UNCHANGED pending

(***************************************************************************)
(* access                                                                  *)
(***************************************************************************)
W_OK == 2
EACCES == 13
AccessModes == {0, W_OK, 4}               \* F_OK, W_OK, R_OK

\* faccessat (basefd, path, mode, AT_SYMLINK_NOFOLLOW) as the kernel answers a
\* process without CAP_DAC_OVERRIDE whose real uid and gid are DRIVER_ID: the
\* owner, group or other bits of the backing inode, by who owns it
faccessat(bk, path, mode) ==
    LET i == bk.d[path]
        bits == bk.i[i].mode
        class == IF bk.i[i].uid = DRIVER_ID THEN (bits \div 64) % 8
                 ELSE IF bk.i[i].gid = DRIVER_ID THEN (bits \div 8) % 8
                 ELSE bits % 8
    IN  IF i = 0 THEN ENOENT
        ELSE IF bk.i[i].kind = "lnk" THEN EOK
        ELSE IF \A b \in {1, 2, 4} : HasBit(mode, b) => HasBit(class, b) THEN EOK
        ELSE EACCES

\* src/groot.c:1089 grootfs_access
grootfs_access(bk, path, mode) == faccessat(bk, path, mode)

\* the answer is kept with the mode that was asked for, also when it is an error
Access(path, mode) ==
    /\ Ready
    /\ last' = [OpRec("access", path, grootfs_access(Backing, path, mode)) EXCEPT
                  !.mode = mode, !.ino = dirents[path]]
    /\ nops' = nops + 1
    /\ UNCHANGED <<fs, dirents, inodes, sidecar, claims, pending, notFS>>

(***************************************************************************)
(* mknod                                                                   *)
(***************************************************************************)
EROFS == 30
MknodModes == {33188, 8630, 4516}         \* S_IFREG | 0644, S_IFCHR | 0666, S_IFIFO | 0644
MknodDevs == {0, 259}                     \* none, makedev (1, 3)

\* a mknod that makes a regular file for the request
mutant_grootfs_mknod(bk, path, mode, rdev) ==
    IF bk.d[path] # 0 THEN [res |-> EEXIST, bk |-> bk]
    ELSE IF FreeInos(bk) = {} THEN [res |-> EROFS, bk |-> bk]
    ELSE [res |-> EOK,
          bk |-> NewEntry(bk, path, CHOOSE i \in FreeInos(bk) : TRUE, "reg", 420)]

\* src/groot.c:785 grootfs_mknod
grootfs_mknod(bk, path, mode, rdev) == [res |-> EROFS, bk |-> bk]

Mknod(path, mode, rdev) ==
    /\ Ready
    /\ LET r == grootfs_mknod(Backing, path, mode, rdev)
       IN  Commit(r.bk, claims,
                  [OpRec("mknod", path, r.res) EXCEPT !.mode = mode, !.ino = dirents[path]])
    /\ UNCHANGED pending

(***************************************************************************)
(* Another process working in the backing directory: it creates and        *)
(* removes regular files, without fake records.                            *)
(***************************************************************************)
EnvCreate(path) ==
    /\ nops < MaxOps
    /\ dirents[path] = 0
    /\ \E i \in FreeInos(Backing) :
         Commit(NewEntry(Backing, path, i, "reg", 420), claims,
                [OpRec("env_create", path, EOK) EXCEPT !.ino = i])
    /\ UNCHANGED pending

EnvRemove(path) ==
    /\ nops < MaxOps
    /\ dirents[path] # 0
    /\ inodes[dirents[path]].kind = "reg"
    /\ Commit(RemoveEntry(Backing, path), claims,
              [OpRec("env_remove", path, EOK) EXCEPT !.ino = dirents[path]])
    /\ UNCHANGED pending

(***************************************************************************)
(* SpecFS                                                                  *)
(***************************************************************************)
PreInodes ==
    { [kind |-> "reg", mode |-> 384, uid |-> DRIVER_ID, gid |-> NOBODY, xattr |-> NoAttr],
      [kind |-> "reg", mode |-> 420, uid |-> NOBODY, gid |-> DRIVER_ID, xattr |-> NoAttr],
      [kind |-> "reg", mode |-> 420, uid |-> DRIVER_ID, gid |-> DRIVER_ID, xattr |-> BadAttr],
      [kind |-> "dir", mode |-> 448, uid |-> DRIVER_ID, gid |-> DRIVER_ID, xattr |-> NoAttr],
      [kind |-> "lnk", mode |-> 511, uid |-> DRIVER_ID, gid |-> DRIVER_ID, xattr |-> NoAttr] }

NsIdle == [cpc |-> "none"]
ImIdle == [pc |-> "none"]
KcIdle == [pc |-> "none"]
RdIdle == [pc |-> "none"]
XaIdle == [pc |-> "none"]
LwIdle == [pc |-> "none"]
RcIdle == [pc |-> "none"]
SgIdle == [pc |-> "none"]
LxIdle == [pc |-> "none"]
OhIdle == [pc |-> "none"]
PlIdle == [pc |-> "none"]

InitFS ==
    /\ fs = [max_uid |-> NS_MAX_ID, max_gid |-> NS_MAX_ID]
    /\ \/ /\ dirents = [n \in Names |-> 0]
          /\ inodes = [i \in Ino |-> FreeInode]
       \/ \E pre \in PreInodes :
            /\ dirents = [n \in Names |-> IF n = "a" THEN 1 ELSE 0]
            /\ inodes = [i \in Ino |-> IF i = 1 THEN pre ELSE FreeInode]
    /\ sidecar = [i \in Ino |-> NoSidecar]
    /\ pending = Idle
    /\ claims = [i \in Ino |-> NoClaims]
    /\ last = OpRec("init", "a", EOK)
    /\ nops = 0
    /\ ns = NsIdle
    /\ im = ImIdle
    /\ kc = KcIdle
    /\ rd = RdIdle
    /\ xa = XaIdle
    /\ lw = LwIdle
    /\ rc = RcIdle
    /\ sg = SgIdle
    /\ lx = LxIdle
    /\ oh = OhIdle
    /\ pl = PlIdle

NextFS ==
    \/ \E p \in Names : Getattr(p)
    \/ \E p \in Names, m \in AccessModes : Access(p, m)
    \/ \E p \in Names, m \in MknodModes, d \in MknodDevs : Mknod(p, m, d)
    \/ \E p \in Names, m \in ModeArgs, xok \in BOOLEAN : Chmod(p, m, xok)
    \/ \E p \in Names, u \in UidArgs, g \in GidArgs, xok \in BOOLEAN : Chown(p, u, g, xok)
    \/ \E p \in Names, m \in NewModes, c \in Creds, xok \in BOOLEAN : Mkdir(p, m, c, xok)
    \/ \E p \in Names, c \in Creds : Open(p, 0, "O_RDWR", c, TRUE)
    \/ \E p \in Names, m \in NewModes, f \in OpenFlags \ {"O_RDWR"}, c \in Creds,
          xok \in BOOLEAN : Open(p, m, f, c, xok)
    \/ \E xok \in BOOLEAN : OpenRetry(xok)
    \/ \E p \in Names : Unlink(p)
    \/ \E i \in Ino : UnlinkDatafile(i)
    \/ \E p \in Names : Rmdir(p)
    \/ \E p \in Names, c \in Creds, xok \in BOOLEAN : Symlink(p, c, xok)
    \/ \E p \in Names, q \in Names : Rename(p, q)
    \/ \E p \in Names, q \in Names : Link(p, q)
    \/ \E p \in Names : EnvCreate(p)
    \/ \E p \in Names : EnvRemove(p)

SpecFS == InitFS /\ [][NextFS]_vars


(***************************************************************************)
(* Claims about the driver                                                 *)
(***************************************************************************)
\* the record the driver would read for inode i out of inode table it and
\* sidecars sc (a symlink's record is its sidecar's)
StoredData(it, sc, i) ==
    IF it[i].kind = "lnk"
    THEN get_fake_data(sc[i].exists, sc[i].xattr, TRUE).data
    ELSE get_fake_data(TRUE, it[i].xattr, FALSE).data

Capped(id, max) == IF id > max THEN 0 ELSE id

\* C1: getattr(P) reports the most recent successful claim of uid, gid and
\* permission bits for P, whatever its value (also above max_uid/max_gid);
\* without a claim it reports the backing inode's real values, a real uid or
\* gid above the maximum replaced by 0; the type bits are the backing inode's.
C1_GetattrReportsClaims ==
    \A p \in Names :
      dirents[p] # 0 =>
        LET i == dirents[p]
            r == grootfs_getattr(Backing, p)
            real == fstatat(Backing, p)
            c == claims[i]
        IN  r.res = EOK =>
              /\ r.st.st_uid = IF c.uid.has THEN c.uid.v
                               ELSE Capped(real.st_uid, fs.max_uid)
              /\ r.st.st_gid = IF c.gid.has THEN c.gid.v
                               ELSE Capped(real.st_gid, fs.max_gid)
              /\ PermBits(r.st.st_mode) = IF c.mode.has THEN c.mode.v
                                          ELSE PermBits(real.st_mode)
              /\ TypeBits(r.st.st_mode) = TypeBits(real.st_mode)

\* C2: after a successful chmod(P, M) the real permission bits of P are 0644,
\* or 0755 exactly when P is a directory or M has the owner-executable bit;
\* the claimed bits M & 07777 are in the fake record, with the mode flag set.
C2_ChmodRealBits ==
    (last.op = "chmod" /\ last.res = EOK) =>
      LET i == last.ino
          data == StoredData(inodes, sidecar, i)
      IN  /\ inodes[i].mode = IF inodes[i].kind = "dir" \/ (last.mode \div 64) % 2 = 1
                              THEN 493 ELSE 420
          /\ inodes[i].xattr.present
          /\ Len(inodes[i].xattr.val) = 16
          /\ data.mode = last.mode % 4096
          /\ HasBit(data.flags, GROOTFS_FLAGS_MODE_SET)

\* a chmod 04755 that succeeded on a regular file: real bits 0755, claim 04755
C2_Witness ==
    /\ last.op = "chmod" /\ last.res = EOK /\ last.mode = 2541
    /\ inodes[last.ino].kind = "reg"
    /\ inodes[last.ino].mode = 493
    /\ SubSeq(inodes[last.ino].xattr.val, 13, 16) = <<0, 0, 9, 237>>

\* C3: a successful chown(P, uid, gid) changes the claimed uid when uid # -1
\* and the claimed gid when gid # -1, sets their flags, and leaves the other
\* claimed owner, the claimed mode and its flag, the real bits and the real
\* owner of every inode alone; a successful chmod leaves the claimed uid and
\* gid and their flags alone.
ChownFrame ==
    (last'.op = "chown" /\ last'.res = EOK /\ nops' = nops + 1) =>
      LET i == last'.ino
          before == StoredData(inodes, sidecar, i)
          after == StoredData(inodes', sidecar', i)
      IN  /\ after.uid = IF last'.uid # NO_ID THEN last'.uid ELSE before.uid
          /\ after.gid = IF last'.gid # NO_ID THEN last'.gid ELSE before.gid
          /\ HasBit(after.flags, GROOTFS_FLAGS_UID_SET)
               = (last'.uid # NO_ID \/ HasBit(before.flags, GROOTFS_FLAGS_UID_SET))
          /\ HasBit(after.flags, GROOTFS_FLAGS_GID_SET)
               = (last'.gid # NO_ID \/ HasBit(before.flags, GROOTFS_FLAGS_GID_SET))
          /\ after.mode = before.mode
          /\ HasBit(after.flags, GROOTFS_FLAGS_MODE_SET)
               = HasBit(before.flags, GROOTFS_FLAGS_MODE_SET)
          /\ dirents' = dirents
          /\ \A j \in Ino : /\ inodes'[j].kind = inodes[j].kind
                            /\ inodes'[j].mode = inodes[j].mode
                            /\ inodes'[j].uid = inodes[j].uid
                            /\ inodes'[j].gid = inodes[j].gid
                            /\ j # i => /\ inodes'[j] = inodes[j]
                                        /\ sidecar'[j] = sidecar[j]

ChmodFrame ==
    (last'.op = "chmod" /\ last'.res = EOK /\ nops' = nops + 1) =>
      LET i == last'.ino
          before == StoredData(inodes, sidecar, i)
          after == StoredData(inodes', sidecar', i)
      IN  /\ after.uid = before.uid
          /\ after.gid = before.gid
          /\ HasBit(after.flags, GROOTFS_FLAGS_UID_SET)
               = HasBit(before.flags, GROOTFS_FLAGS_UID_SET)
          /\ HasBit(after.flags, GROOTFS_FLAGS_GID_SET)
               = HasBit(before.flags, GROOTFS_FLAGS_GID_SET)

C3_ChownFrame == [][ChownFrame /\ ChmodFrame]_vars

\* a chown of the uid alone on an inode whose record already claims a gid and
\* a mode: both are still there
C3_Witness ==
    /\ last.op = "chown" /\ last.res = EOK /\ last.uid = 5 /\ last.gid = NO_ID
    /\ StoredData(inodes, sidecar, last.ino) = [flags |-> 7, uid |-> 5, gid |-> 2, mode |-> 420]

\* C4: whenever an open/create that returns success has created the file, the
\* file carries the record of the request (all three flags, mode & 07777, the
\* request's uid and gid), and an open of a file that existed leaves its
\* record as it was; also when another process creates or removes the path
\* between the O_EXCL attempt and the retry.
OpenRecords ==
    (last'.op = "open" /\ last'.res = EOK /\ last' # last) =>
      LET i == last'.ino
      IN  IF last'.created
          THEN inodes'[i].xattr =
                 Attr(<<0, 0, 0, 7>> \o htonl(last'.cred.uid) \o htonl(last'.cred.gid)
                      \o htonl(last'.mode % 4096))
          ELSE inodes'[i].xattr = inodes[i].xattr

C4_CreateWritesRecord == [][OpenRecords]_vars

MaxWraps == 2

Wraps(n) == 1..n.nwraps

UAlive(n) == n.upc \notin {"none", "exited"}
MAlive(n) == n.mpc \notin {"none", "exited"}
CAlive(n) == n.cpc \notin {"dead", "exec"}
SessAlive(n, i) == n.sess[i] \in {"starting", "running"}

\* the processes that hold the Mount Helper's end of its socket pair open:
\* the helper, and every session process forked from it
\* (0 stands for the helper, i for the session process of wrap i)
HelperEndHolders(n) ==
    (IF MAlive(n) THEN {0} ELSE {}) \cup {i \in Wraps(n) : SessAlive(n, i)}

\* the double_fork_with_socket whose grandchild does not close
\* status_sockets[0]: each helper keeps the coordinator's end of its own pair
mutant_CoordEndHolders(n) ==
    (IF CAlive(n) THEN {"coordinator"} ELSE {}) \cup (IF UAlive(n) THEN {"uidmap"} ELSE {})
        \cup (IF MAlive(n) THEN {"mount"} ELSE {})

\* the coordinator's end of that pair was inherited by the Privilege-Map
\* Helper, which is forked after the pair is made
CoordEndHolders(n) ==
    (IF CAlive(n) THEN {"coordinator"} ELSE {}) \cup (IF UAlive(n) THEN {"uidmap"} ELSE {})

\* closing the last descriptor of an end with unread data queued for it
\* leaves ECONNRESET pending on the other end
Settle(n) ==
    [n EXCEPT !.uerr = @ \/ (n.upc = "exited" /\ n.u2h > 0),
              !.ferr = @ \/ (n.nwraps > 0 /\ n.mpc = "exited"
                             /\ HelperEndHolders(n) = {} /\ n.f2h # << >>)]

NsStep(n) ==
    /\ ns' = Settle(n)
    /\ UNCHANGED notNS

Die(n, why) == [n EXCEPT !.cpc = "dead", !.cerr = why]

(***************************************************************************)
(* The coordinator: src/groot-ns.c:317 groot_setup_ns, src/groot.c:156     *)
(***************************************************************************)
\* src/groot-ns.c:350 and 145: the opens of the wrap directories, the fork
CStartFuse ==
    /\ ns.cpc = "start_fuse"
    /\ IF ns.nwraps > 0
       THEN \E ok \in [Wraps(ns) -> BOOLEAN] :
              NsStep([ns EXCEPT !.wrapok = ok, !.mpc = "recv", !.mi = 1,
                                !.cpc = "start_uidmap"])
       ELSE NsStep([ns EXCEPT !.cpc = "start_uidmap"])

\* src/groot-ns.c:353
CStartUidmap ==
    /\ ns.cpc = "start_uidmap"
    /\ NsStep([ns EXCEPT !.upc = "read_wake", !.cpc = "prctl"])

\* src/groot-ns.c:356
CPrctl(ok) ==
    /\ ns.cpc = "prctl"
    /\ NsStep(IF ok THEN [ns EXCEPT !.no_new_privs = TRUE, !.cpc = "unshare"]
                    ELSE Die(ns, "prctl"))

\* src/groot-ns.c:359
CUnshare(ok) ==
    /\ ns.cpc = "unshare"
    /\ NsStep(IF ok THEN [ns EXCEPT !.unshared = TRUE, !.cpc = "write_wake"]
                    ELSE Die(ns, "unshare"))

\* src/groot-ns.c:363: a write to a socket whose peer is closed fails (EPIPE)
CWriteWake ==
    /\ ns.cpc = "write_wake"
    /\ NsStep(IF UAlive(ns)
              THEN [ns EXCEPT !.u2h = @ + 1, !.wake_written = TRUE, !.cpc = "read_uid"]
              ELSE Die(ns, "write"))

\* src/groot-ns.c:368: read returns a byte, or the pending error, or 0 at
\* end-of-file; only s == 0 is fatal
CReadUid ==
    /\ ns.cpc = "read_uid"
    /\ IF ns.u2c > 0
       THEN NsStep([ns EXCEPT !.u2c = @ - 1, !.got_uid_ack = TRUE, !.cpc = "mount", !.ci = 1])
       ELSE IF ns.uerr
       THEN NsStep([ns EXCEPT !.uerr = FALSE, !.cpc = "mount", !.ci = 1])   \* s == -1
       ELSE /\ ~UAlive(ns)
            /\ NsStep(Die(ns, "uidmap"))                                    \* s == 0

\* the loop turn that does not skip a wrap whose directory failed to open
mutant_CMount(ok) ==
    /\ ns.cpc = "mount"
    /\ IF ns.nwraps = 0 THEN NsStep([ns EXCEPT !.cpc = "keep_caps"])
       ELSE IF ns.ci > ns.nwraps THEN NsStep([ns EXCEPT !.cpc = "read_fuse"])
       ELSE IF ~ok THEN NsStep(Die(ns, "mount"))
       ELSE IF HelperEndHolders(ns) = {} THEN NsStep(Die(ns, "send_fd"))
       ELSE NsStep([ns EXCEPT !.f2h = Append(@, ns.ci), !.sent = Append(@, ns.ci),
                              !.cheld = (@ \cup {ns.ci}) \ {ns.ci},
                              !.ci = @ + 1])

\* src/groot-ns.c:377: one turn of the loop over the wraps
CMount(ok) ==
    /\ ns.cpc = "mount"
    /\ IF ns.nwraps = 0 THEN NsStep([ns EXCEPT !.cpc = "keep_caps"])
       ELSE IF ns.ci > ns.nwraps THEN NsStep([ns EXCEPT !.cpc = "read_fuse"])
       ELSE IF ~ns.wrapok[ns.ci] THEN NsStep([ns EXCEPT !.ci = @ + 1])
       ELSE IF ~ok THEN NsStep(Die(ns, "mount"))
       ELSE IF HelperEndHolders(ns) = {} THEN NsStep(Die(ns, "send_fd"))
       ELSE NsStep([ns EXCEPT !.f2h = Append(@, ns.ci), !.sent = Append(@, ns.ci),
                              !.cheld = (@ \cup {ns.ci}) \ {ns.ci},
                              !.ci = @ + 1])

\* src/groot-ns.c:396: res == -1 and res == 0 are both fatal
CReadFuse ==
    /\ ns.cpc = "read_fuse"
    /\ IF ns.f2c > 0
       THEN NsStep([ns EXCEPT !.f2c = @ - 1, !.got_fuse_ack = TRUE, !.cpc = "keep_caps"])
       ELSE IF ns.ferr
       THEN NsStep(Die([ns EXCEPT !.ferr = FALSE], "read_fuse"))
       ELSE /\ HelperEndHolders(ns) = {}
            /\ NsStep(Die(ns, "fuse"))

\* src/groot-ns.c:404 keep_caps, then src/groot.c:163 execvp
CKeepCaps(ok) ==
    /\ ns.cpc = "keep_caps"
    /\ NsStep(IF ok THEN [ns EXCEPT !.cpc = "exec"] ELSE Die(ns, "caps"))

(***************************************************************************)
(* The Privilege-Map Helper: src/groot-ns.c:115 start_uidmap_process       *)
(***************************************************************************)
\* the helper's read that takes any return but an error for the wake byte
mutant_UReadWake ==
    /\ ns.upc = "read_wake"
    /\ IF ns.u2h > 0
       THEN NsStep([ns EXCEPT !.u2h = @ - 1, !.u_woken = TRUE, !.upc = "newuidmap"])
       ELSE /\ ~CAlive(ns)
            /\ NsStep([ns EXCEPT !.upc = "newuidmap"])

\* src/groot-ns.c:127: s == 1 starts the mapping, end-of-file ends the helper
UReadWake ==
    /\ ns.upc = "read_wake"
    /\ IF ns.u2h > 0
       THEN NsStep([ns EXCEPT !.u2h = @ - 1, !.u_woken = TRUE, !.upc = "newuidmap"])
       ELSE /\ ~CAlive(ns)
            /\ NsStep([ns EXCEPT !.upc = "exited"])

IdmapOutcomes == {"exit0", "exit1", "signal", "noexec"}

\* launch_newidmap without the test of the exit status
mutant_launch_newidmap(n, bin, outcome, next) ==
    IF outcome \in {"exit0", "exit1"}
    THEN [n EXCEPT ![bin] = outcome, !.upc = next,
                   !.maps = IF outcome = "exit0" THEN @ \cup {bin} ELSE @]
    ELSE [n EXCEPT ![bin] = outcome, !.upc = "exited"]

\* src/groot-ns.c:38 launch_newidmap: fork, execvp, waitpid; the helper goes
\* on only after exit status 0.  A failed execvp makes the child exit 1.
launch_newidmap(n, bin, outcome, next) ==
    IF outcome = "exit0"
    THEN [n EXCEPT ![bin] = outcome, !.upc = next, !.maps = @ \cup {bin}]
    ELSE [n EXCEPT ![bin] = outcome, !.upc = "exited"]

\* src/groot-ns.c:134
ULaunchUid(outcome) ==
    /\ ns.upc = "newuidmap"
    /\ NsStep(launch_newidmap(ns, "nu", outcome, "newgidmap"))

\* src/groot-ns.c:135
ULaunchGid(outcome) ==
    /\ ns.upc = "newgidmap"
    /\ NsStep(launch_newidmap(ns, "ng", outcome, "write_ack"))

\* src/groot-ns.c:138 and 142: the acknowledgement, then exit (0)
UWriteAck ==
    /\ ns.upc = "write_ack"
    /\ NsStep(IF CAlive(ns)
              THEN [ns EXCEPT !.u2c = @ + 1, !.uack_sent = TRUE, !.upc = "exited"]
              ELSE [ns EXCEPT !.upc = "exited"])

\* the helper is killed, or dies in double_fork_with_socket
UKill ==
    /\ UAlive(ns)
    /\ NsStep([ns EXCEPT !.upc = "exited", !.ukilled = TRUE])

(***************************************************************************)
(* The Mount Helper: src/groot-ns.c:145 start_fuse_process                 *)
(***************************************************************************)
\* the loop turn that does not skip a wrap whose directory failed to open
mutant_MRecv ==
    /\ ns.mpc = "recv"
    /\ IF ns.mi > ns.nwraps THEN NsStep([ns EXCEPT !.mpc = "write_ack"])
       ELSE IF ns.f2h # << >>
       THEN NsStep([ns EXCEPT !.f2h = Tail(@), !.sess[ns.mi] = "starting",
                              !.handle[ns.mi] = Head(ns.f2h),
                              !.held[ns.mi] = ns.mheld \cup {Head(ns.f2h)},
                              !.spc[ns.mi] = "fuse_new",
                              !.mheld = (@ \cup {Head(ns.f2h)}) \ {Head(ns.f2h)},
                              !.mpc = "wait_session"])
       ELSE /\ CoordEndHolders(ns) = {}
            /\ NsStep([ns EXCEPT !.mpc = "exited"])

\* the loop turn whose start_grootfs_lowlevel does not close dev_fuse in the
\* parent branch
mutant_MRecv_keeps_handle ==
    /\ ns.mpc = "recv"
    /\ IF ns.mi > ns.nwraps THEN NsStep([ns EXCEPT !.mpc = "write_ack"])
       ELSE IF ~ns.wrapok[ns.mi] THEN NsStep([ns EXCEPT !.mi = @ + 1])
       ELSE IF ns.f2h # << >>
       THEN NsStep([ns EXCEPT !.f2h = Tail(@), !.sess[ns.mi] = "starting",
                              !.handle[ns.mi] = Head(ns.f2h),
                              !.held[ns.mi] = ns.mheld \cup {Head(ns.f2h)},
                              !.spc[ns.mi] = "fuse_new",
                              !.mheld = @ \cup {Head(ns.f2h)},
                              !.mpc = "wait_session"])
       ELSE /\ CoordEndHolders(ns) = {}
            /\ NsStep([ns EXCEPT !.mpc = "exited"])

\* src/groot-ns.c:176: one turn of the loop, up to the fork of the session
\* (recv_fd, then src/groot.c:1471 pipe and fork; the child inherits every
\* handle the helper has open; the parent branch closes dev_fuse at 1490)
MRecv ==
    /\ ns.mpc = "recv"
    /\ IF ns.mi > ns.nwraps THEN NsStep([ns EXCEPT !.mpc = "write_ack"])
       ELSE IF ~ns.wrapok[ns.mi] THEN NsStep([ns EXCEPT !.mi = @ + 1])
       ELSE IF ns.f2h # << >>
       THEN NsStep([ns EXCEPT !.f2h = Tail(@), !.sess[ns.mi] = "starting",
                              !.handle[ns.mi] = Head(ns.f2h),
                              !.held[ns.mi] = ns.mheld \cup {Head(ns.f2h)},
                              !.spc[ns.mi] = "fuse_new",
                              !.mheld = (@ \cup {Head(ns.f2h)}) \ {Head(ns.f2h)},
                              !.mpc = "wait_session"])
       ELSE /\ CoordEndHolders(ns) = {}
            /\ NsStep([ns EXCEPT !.mpc = "exited"])       \* no /dev/fuse fd received

\* src/groot.c:1518: dev_fuse_chan_new, new_grootfs and fuse_new
SessionFuseNew(i) ==
    /\ i \in Wraps(ns)
    /\ ns.sess[i] = "starting"
    /\ ns.spc[i] = "fuse_new"
    /\ NsStep([ns EXCEPT !.spc[i] = "handlers"])

\* src/groot.c:1525: set_signal_handlers
SessionHandlers(i) ==
    /\ i \in Wraps(ns)
    /\ ns.sess[i] = "starting"
    /\ ns.spc[i] = "handlers"
    /\ NsStep([ns EXCEPT !.spc[i] = "write"])

\* src/groot.c:1527: the write on the status pipe; fuse_loop comes next
SessionReady(i) ==
    /\ i \in Wraps(ns)
    /\ ns.sess[i] = "starting"
    /\ ns.spc[i] = "write"
    /\ NsStep([ns EXCEPT !.sess[i] = "running", !.spc[i] = "loop"])

\* the session process dies before it has written to the status pipe
SessionFail(i) ==
    /\ i \in Wraps(ns)
    /\ ns.sess[i] = "starting"
    /\ NsStep([ns EXCEPT !.sess[i] = "dead"])

\* the helper's read that returns before the session process has written
mutant_MWaitSession ==
    /\ ns.mpc = "wait_session"
    /\ NsStep(IF ns.sess[ns.mi] # "dead"
              THEN [ns EXCEPT !.mpc = "recv", !.mi = @ + 1]
              ELSE [ns EXCEPT !.mpc = "exited"])

\* src/groot.c:1484: the helper's read of the status pipe; a short read makes
\* start_grootfs_lowlevel return -1 and the helper die
MWaitSession ==
    /\ ns.mpc = "wait_session"
    /\ ns.sess[ns.mi] \in {"running", "dead"}
    /\ NsStep(IF ns.sess[ns.mi] = "running"
              THEN [ns EXCEPT !.mpc = "recv", !.mi = @ + 1]
              ELSE [ns EXCEPT !.mpc = "exited"])

\* src/groot-ns.c:192 and 195
MWriteAck ==
    /\ ns.mpc = "write_ack"
    /\ NsStep(IF CoordEndHolders(ns) # {}
              THEN [ns EXCEPT !.f2c = @ + 1, !.fack_sent = TRUE, !.mpc = "exited"]
              ELSE [ns EXCEPT !.mpc = "exited"])

\* the helper is killed, or dies in double_fork_with_socket
MKill ==
    /\ MAlive(ns)
    /\ NsStep([ns EXCEPT !.mpc = "exited"])

(***************************************************************************)
(* SpecNS                                                                  *)
(***************************************************************************)
InitNS ==
    /\ \E n \in 0..MaxWraps :
         ns = [nwraps |-> n, wrapok |-> [i \in 1..n |-> FALSE],
               cpc |-> "start_fuse", ci |-> 0, cerr |-> "",
               no_new_privs |-> FALSE, unshared |-> FALSE, wake_written |-> FALSE,
               got_uid_ack |-> FALSE, got_fuse_ack |-> FALSE,
               upc |-> "none", u_woken |-> FALSE, nu |-> "none", ng |-> "none",
               maps |-> {}, uack_sent |-> FALSE, ukilled |-> FALSE,
               u2h |-> 0, u2c |-> 0, uerr |-> FALSE,
               mpc |-> "none", mi |-> 0, fack_sent |-> FALSE,
               sess |-> [i \in 1..n |-> "none"], handle |-> [i \in 1..n |-> 0],
               spc |-> [i \in 1..n |-> "none"],
               cheld |-> {}, mheld |-> {}, held |-> [i \in 1..n |-> {}],
               f2h |-> << >>, f2c |-> 0, ferr |-> FALSE, sent |-> << >>]
    /\ fs = [max_uid |-> NS_MAX_ID, max_gid |-> NS_MAX_ID]
    /\ dirents = [n \in Names |-> 0]
    /\ inodes = [i \in Ino |-> FreeInode]
    /\ sidecar = [i \in Ino |-> NoSidecar]
    /\ pending = Idle
    /\ claims = [i \in Ino |-> NoClaims]
    /\ last = OpRec("init", "a", EOK)
    /\ nops = 0
    /\ im = ImIdle
    /\ kc = KcIdle
    /\ rd = RdIdle
    /\ xa = XaIdle
    /\ lw = LwIdle
    /\ rc = RcIdle
    /\ sg = SgIdle
    /\ lx = LxIdle
    /\ oh = OhIdle
    /\ pl = PlIdle

NextNS ==
    \/ CStartFuse
    \/ CStartUidmap
    \/ \E ok \in BOOLEAN : CPrctl(ok)
    \/ \E ok \in BOOLEAN : CUnshare(ok)
    \/ CWriteWake
    \/ CReadUid
    \/ \E ok \in BOOLEAN : CMount(ok)
    \/ CReadFuse
    \/ \E ok \in BOOLEAN : CKeepCaps(ok)
    \/ UReadWake
    \/ \E o \in IdmapOutcomes : ULaunchUid(o)
    \/ \E o \in IdmapOutcomes : ULaunchGid(o)
    \/ UWriteAck
    \/ UKill
    \/ MRecv
    \/ \E i \in 1..MaxWraps : SessionFuseNew(i)
    \/ \E i \in 1..MaxWraps : SessionHandlers(i)
    \/ \E i \in 1..MaxWraps : SessionReady(i)
    \/ \E i \in 1..MaxWraps : SessionFail(i)
    \/ MWaitSession
    \/ MWriteAck
    \/ MKill

SpecNS == InitNS /\ [][NextNS]_vars


(***************************************************************************)
(* Claims about the namespace entry, checked under SpecNS                  *)
(***************************************************************************)

\* C6: the coordinator never reaches execve of the target without having
\* received the Privilege-Map Helper's acknowledgement and, when at least one
\* wrap was requested, the Mount Helper's acknowledgement; this for every
\* outcome of its reads (a byte, end-of-file, an error other than EINTR).
C6_ExecOnlyAfterAcks ==
    ns.cpc = "exec" =>
        /\ ns.got_uid_ack
        /\ ns.nwraps > 0 => ns.got_fuse_ack

\* C7 (for the Mount Helper, the helper the claim names, in a run where the
\* Privilege-Map Helper has acknowledged): when the Mount Helper has ended
\* without acknowledging, also after it had started the session process of
\* an earlier wrap, the coordinator has not reached execve, and once no
\* session process is still starting its read of the acknowledgement, if it
\* is there, does not block: it returns end-of-file (or the socket's pending
\* error), on which the coordinator exits non-zero.
C7_HelperDeathIsSeen ==
    (ns.nwraps > 0 /\ ns.got_uid_ack /\ ns.mpc = "exited" /\ ~ns.fack_sent) =>
        /\ ns.cpc \notin {"keep_caps", "exec"}
        /\ (ns.cpc = "read_fuse" /\ \A i \in Wraps(ns) : ns.sess[i] # "starting")
              => (HelperEndHolders(ns) = {} \/ ns.ferr)

\* C8: newuidmap and newgidmap are started only after the helper has read
\* the wake-up byte, the byte is written only after unshare has returned
\* success, so a map is written only after the unshare, and both maps are
\* written before the coordinator has the acknowledgement.
C8_MapsAfterUnshare ==
    /\ (ns.nu # "none" \/ ns.ng # "none") => ns.u_woken
    /\ ns.wake_written => ns.unshared
    /\ ns.u_woken => ns.wake_written
    /\ ns.maps # {} => ns.unshared
    /\ ns.got_uid_ack => ns.maps = {"nu", "ng"}

C8_Witness ==
    /\ ns.got_uid_ack
    /\ ns.maps = {"nu", "ng"}
    /\ ns.unshared

\* C9: newgidmap is started only after newuidmap exited 0; the helper
\* acknowledges only after both exited 0; when either tool fails no
\* acknowledgement is sent, the coordinator goes no further than its read of
\* the acknowledgement, that read returns end-of-file, and the coordinator
\* ends with the mapping failure.
IdmapFailed(n) == n.nu \in IdmapOutcomes \ {"exit0"} \/ n.ng \in IdmapOutcomes \ {"exit0"}

C9_GidAfterUid ==
    /\ ns.ng # "none" => ns.nu = "exit0"
    /\ ns.uack_sent => ns.nu = "exit0" /\ ns.ng = "exit0"
    /\ IdmapFailed(ns) =>
          /\ ~ns.uack_sent /\ ns.u2c = 0 /\ ~ns.got_uid_ack
          /\ ns.upc = "exited" /\ ~ns.uerr
          /\ ns.cpc \in {"read_uid", "dead"}
          /\ ns.cpc = "dead" => ns.cerr = "uidmap"

C9_Witness ==
    /\ ns.nu = "exit0"
    /\ ns.ng \in IdmapOutcomes \ {"exit0"}
    /\ ns.cpc = "dead"
    /\ ns.cerr = "uidmap"

(***************************************************************************)
(* The identity-map table: src/groot-ns.c:228 make_idmap                   *)
(*                                                                         *)
(* A string is a sequence of one-character strings.  im is a record:       *)
(*   file           the sub-ID file: whether it exists, and its lines (the *)
(*                  pieces strsep cuts the content into at each newline)   *)
(*   content, line_iterator   the loaded content and the index of the next *)
(*                  line, 0 for NULL                                       *)
(*   mapping, next_id, warned   the table of strings, the next namespace   *)
(*                  id, whether the warning was reported                   *)
(***************************************************************************)
MaxLines == 2
BASE_ID == 7

DigitChars == <<"0", "1", "2", "3", "4", "5", "6", "7", "8", "9">>
IsDigit(c) == \E d \in 1..10 : DigitChars[d] = c
DigitVal(c) == (CHOOSE d \in 1..10 : DigitChars[d] = c) - 1
IsSpace(c) == c = " "

\* the index of the first character of str, from index i on, that is not a
\* digit (digits) or not white space (~digits)
RECURSIVE SkipWhile(_, _, _)
SkipWhile(str, i, digits) ==
    IF i > Len(str) THEN i
    ELSE IF (IF digits THEN IsDigit(str[i]) ELSE IsSpace(str[i]))
    THEN SkipWhile(str, i + 1, digits)
    ELSE i

RECURSIVE DigitsValue(_, _, _)
DigitsValue(str, i, j) ==
    IF j < i THEN 0 ELSE DigitsValue(str, i, j - 1) * 10 + DigitVal(str[j])

\* strtol (str, &end, 10): white space, an optional sign, digits.  Without
\* a digit the value is 0 and end is the start of str.  end is an index into
\* str; Len(str) + 1 is its terminating NUL.
strtol(str) ==
    LET i == SkipWhile(str, 1, FALSE)
        neg == IF i <= Len(str) THEN str[i] = "-" ELSE FALSE
        j == IF i <= Len(str) THEN (IF str[i] \in {"-", "+"} THEN i + 1 ELSE i) ELSE i
        k == SkipWhile(str, j, TRUE)
        v == DigitsValue(str, j, k - 1)
    IN  IF k = j THEN [val |-> 0, end |-> 1]
        ELSE [val |-> IF neg THEN 0 - v ELSE v, end |-> k]

\* xasprintf ("%ld", n)
RECURSIVE FmtNat(_)
FmtNat(n) == IF n < 10 THEN <<DigitChars[n + 1]>>
             ELSE Append(FmtNat(n \div 10), DigitChars[(n % 10) + 1])

Fmt(n) == IF n < 0 THEN <<"-">> \o FmtNat(0 - n) ELSE FmtNat(n)

\* has_prefix (str, prefix)
has_prefix(str, prefix) ==
    IF Len(str) >= Len(prefix) THEN SubSeq(str, 1, Len(prefix)) = prefix ELSE FALSE

\* strchr (str, c): the index of the first c, 0 when there is none
strchr(str, c) ==
    IF \E i \in 1..Len(str) : str[i] = c
    THEN CHOOSE i \in 1..Len(str) : str[i] = c /\ \A j \in 1..(i - 1) : str[j] # c
    ELSE 0

Username == <<"u">>

IdLines ==
    { <<"u", ":", "1", "0", ":", "2">>,
      <<"u", ":", "2", "0", ":", "3">>,
      <<"v", ":", "5", ":", "5">>,
      <<"u", "u", ":", "7", ":", "1">>,
      <<"u", ":", "1", "0", ":", "0">>,
      <<"u", ":", "1", "0", ":">>,
      <<"u", ":", "1", "0", ":", "-", "1">>,
      <<"u", ":", "x", ":", "1">>,
      <<"u", ":", "1", "0">>,
      <<"u", ":", "1", ":", "2", "x">>,
      <<"u", ":", ":", "4">>,
      <<"u", ":", " ", "3", ":", "+", "2">>,
      << >> }

\* the pieces of a file's content; the last piece of a content that ends
\* with a newline is the empty string
IdFiles == UNION {[1..n -> IdLines] : n \in 1..MaxLines}

NoFile == [exists |-> FALSE, lines |-> << >>]

ImStep(i) ==
    /\ im' = i
    /\ UNCHANGED notIdmap

\* src/groot-ns.c:237-244: the first triple, then load_file_at
ImLoad ==
    /\ im.pc = "load"
    /\ ImStep([im EXCEPT !.mapping = <<Fmt(0), Fmt(im.base_id), Fmt(1)>>,
                         !.next_id = 1,
                         !.content = IF im.file.exists THEN im.file.lines ELSE << >>,
                         !.line_iterator = IF im.file.exists THEN 1 ELSE 0,
                         !.pc = "lines"])

\* src/groot-ns.c:251-285: the triple a line adds and what it adds to
\* next_id, or no triple for a line that is skipped
ParseLine(line0, next_id) ==
    LET u == Len(Username)
        skip == [add |-> << >>, count |-> 0]
    IN  IF ~has_prefix(line0, Username) THEN skip
        ELSE IF Len(line0) <= u THEN skip               \* line[strlen] is the NUL
        ELSE IF line0[u + 1] # ":" THEN skip
        ELSE LET line == SubSeq(line0, u + 2, Len(line0))
                 colon == strchr(line, ":")
             IN  IF colon = 0 THEN skip
                 ELSE LET basestr == SubSeq(line, 1, colon - 1)
                          countstr == SubSeq(line, colon + 1, Len(line))
                          b == strtol(basestr)
                          c == strtol(countstr)
                      IN  IF b.end <= Len(basestr) THEN skip
                          ELSE IF c.end <= Len(countstr) THEN skip
                          ELSE [add |-> <<Fmt(next_id), Fmt(b.val), Fmt(c.val)>>,
                                count |-> c.val]

\* src/groot-ns.c:249-286: one turn of the loop over the lines
ImLine ==
    /\ im.pc = "lines"
    /\ im.line_iterator # 0
    /\ LET r == ParseLine(im.content[im.line_iterator], im.next_id)
       IN  ImStep([im EXCEPT !.mapping = @ \o r.add,
                             !.next_id = @ + r.count,
                             !.line_iterator = IF @ = Len(im.content) THEN 0 ELSE @ + 1])

\* src/groot-ns.c:289-292
ImReturn ==
    /\ im.pc = "lines"
    /\ im.line_iterator = 0
    /\ ImStep([im EXCEPT !.warned = (im.next_id = 1), !.pc = "done"])

InitIdmap ==
    /\ \E f \in {NoFile} \cup {[exists |-> TRUE, lines |-> l] : l \in IdFiles} :
         im = [file |-> f, base_id |-> BASE_ID, content |-> << >>, line_iterator |-> 0,
               mapping |-> << >>, next_id |-> 0, warned |-> FALSE, pc |-> "load"]
    /\ fs = [max_uid |-> NS_MAX_ID, max_gid |-> NS_MAX_ID]
    /\ dirents = [n \in Names |-> 0]
    /\ inodes = [i \in Ino |-> FreeInode]
    /\ sidecar = [i \in Ino |-> NoSidecar]
    /\ pending = Idle
    /\ claims = [i \in Ino |-> NoClaims]
    /\ last = OpRec("init", "a", EOK)
    /\ nops = 0
    /\ ns = NsIdle
    /\ kc = KcIdle
    /\ rd = RdIdle
    /\ xa = XaIdle
    /\ lw = LwIdle
    /\ rc = RcIdle
    /\ sg = SgIdle
    /\ lx = LxIdle
    /\ oh = OhIdle
    /\ pl = PlIdle

NextIdmap ==
    \/ ImLoad
    \/ ImLine
    \/ ImReturn

SpecIdmap == InitIdmap /\ [][NextIdmap]_vars

(***************************************************************************)
(* Claims about the identity-map table, checked under SpecIdmap            *)
(***************************************************************************)
Triples(m) == [k \in 1..(Len(m) \div 3) |->
                 [first |-> strtol(m[3 * k - 2]).val,
                  host  |-> strtol(m[3 * k - 1]).val,
                  len   |-> strtol(m[3 * k]).val]]

RECURSIVE SumLen(_, _)
SumLen(t, k) == IF k = 0 THEN 0 ELSE SumLen(t, k - 1) + t[k].len

\* C10: for every content of the sub-ID file, the table make_idmap returns
\* starts with the triple (0, host id, 1), the namespace ranges of its
\* triples are dense and do not overlap (each starts where the one before it
\* ends), and every length is at least 1.
C10_IdmapDense ==
    im.pc = "done" =>
        LET t == Triples(im.mapping)
        IN  /\ Len(im.mapping) = 3 * Len(t)
            /\ Len(t) >= 1
            /\ t[1] = [first |-> 0, host |-> im.base_id, len |-> 1]
            /\ \A k \in 1..Len(t) : t[k].first = SumLen(t, k - 1)
            /\ \A k \in 1..Len(t) : t[k].len >= 1

\* C11: make_idmap reports the 'limited user/group support' warning if and
\* only if the table it returns holds the identity triple alone, that is, if
\* and only if no line of the sub-ID file added a triple.
C11_WarningIffNoTriple ==
    im.pc = "done" => (im.warned <=> Len(im.mapping) = 3)

(***************************************************************************)
(* keep_caps: src/groot-ns.c:198                                           *)
(*                                                                         *)
(* kc is a record: the capability sets of the coordinator (sets of         *)
(* capability numbers), kernel_last (the highest capability the running    *)
(* kernel knows), shift (what the build makes of the int shift 1 << cap),  *)
(* effective (the 64-bit value read by capget), cap (the loop variable).   *)
(* keep_caps runs after unshare (CLONE_NEWUSER), which leaves the process  *)
(* with every capability of the kernel permitted and effective, none       *)
(* inheritable and none ambient.                                           *)
(***************************************************************************)
CAP_LAST_CAP == 40
INT_BITS == 32
LONG_BITS == 64

KernelLastCaps == {37, 40, 41}

\* "reg32": a 32-bit shift that takes the count modulo 32, its int result
\*          sign-extended to 64 bits (x86, arm64)
\* "reg32z": a 32-bit shift that gives 0 for a count of 32 or more (arm)
\* "bit64": a 64-bit bit test of effective
Shifts == {"reg32", "reg32z", "bit64"}

\* the bits of (uint64_t)(1 << cap): defined by C for cap <= 30 only
ShiftMask(shift, cap) ==
    IF cap < INT_BITS - 1 THEN {cap}
    ELSE IF shift = "bit64" THEN {cap}
    ELSE IF cap = INT_BITS - 1 THEN (INT_BITS - 1)..(LONG_BITS - 1)
    ELSE IF shift = "reg32" THEN {cap % INT_BITS}
    ELSE {}

KcStep(k) ==
    /\ kc' = k
    /\ UNCHANGED notCaps

\* src/groot-ns.c:205-208
KcCapget(ok) ==
    /\ kc.pc = "capget"
    /\ KcStep(IF ok THEN [kc EXCEPT !.effective = kc.cap_effective, !.pc = "capset"]
                    ELSE [kc EXCEPT !.pc = "dead"])

\* src/groot-ns.c:211-214
KcCapset(ok) ==
    /\ kc.pc = "capset"
    /\ KcStep(IF ok THEN [kc EXCEPT !.cap_inheritable = kc.cap_permitted,
                                    !.cap = 0, !.pc = "raise"]
                    ELSE [kc EXCEPT !.pc = "dead"])

\* prctl (PR_CAP_AMBIENT, PR_CAP_AMBIENT_RAISE, cap): EINVAL for a number the
\* kernel does not know, EPERM unless permitted and inheritable
AmbientRaise(k, cap) ==
    IF cap > k.kernel_last THEN "EINVAL"
    ELSE IF cap \notin (k.cap_permitted \cap k.cap_inheritable) THEN "EPERM"
    ELSE "ok"

\* src/groot-ns.c:217-225: one turn of the loop
KcRaise ==
    /\ kc.pc = "raise"
    /\ kc.cap <= CAP_LAST_CAP
    /\ IF kc.effective \cap ShiftMask(kc.shift, kc.cap) = {}
       THEN KcStep([kc EXCEPT !.cap = @ + 1])
       ELSE LET r == AmbientRaise(kc, kc.cap)
            IN  KcStep(IF r = "ok"
                       THEN [kc EXCEPT !.cap_ambient = @ \cup {kc.cap}, !.cap = @ + 1]
                       ELSE IF r = "EINVAL" THEN [kc EXCEPT !.cap = @ + 1]
                       ELSE [kc EXCEPT !.pc = "dead"])

\* src/groot-ns.c:226
KcReturn ==
    /\ kc.pc = "raise"
    /\ kc.cap > CAP_LAST_CAP
    /\ KcStep([kc EXCEPT !.pc = "done"])

InitCaps ==
    /\ \E kl \in KernelLastCaps, sh \in Shifts :
         kc = [kernel_last |-> kl, shift |-> sh,
               cap_permitted |-> 0..kl, cap_effective |-> 0..kl,
               cap_inheritable |-> {}, cap_ambient |-> {},
               effective |-> {}, cap |-> 0, pc |-> "capget"]
    /\ fs = [max_uid |-> NS_MAX_ID, max_gid |-> NS_MAX_ID]
    /\ dirents = [n \in Names |-> 0]
    /\ inodes = [i \in Ino |-> FreeInode]
    /\ sidecar = [i \in Ino |-> NoSidecar]
    /\ pending = Idle
    /\ claims = [i \in Ino |-> NoClaims]
    /\ last = OpRec("init", "a", EOK)
    /\ nops = 0
    /\ ns = NsIdle
    /\ im = ImIdle
    /\ rd = RdIdle
    /\ xa = XaIdle
    /\ lw = LwIdle
    /\ rc = RcIdle
    /\ sg = SgIdle
    /\ lx = LxIdle
    /\ oh = OhIdle
    /\ pl = PlIdle

NextCaps ==
    \/ \E ok \in BOOLEAN : KcCapget(ok)
    \/ \E ok \in BOOLEAN : KcCapset(ok)
    \/ KcRaise
    \/ KcReturn

SpecCaps == InitCaps /\ [][NextCaps]_vars

\* C12: keep_caps raises to the ambient set every capability number in
\* 0..CAP_LAST_CAP that is in the permitted set, those of 32 and more
\* included, and no other; a raise that fails with EINVAL is skipped.
C12_KeepCapsRaisesPermitted ==
    kc.pc = "done" =>
        kc.cap_ambient = {c \in kc.cap_permitted : c <= CAP_LAST_CAP}

(***************************************************************************)
(* Claims about the wraps, checked under SpecNS                            *)
(***************************************************************************)
Opened(n) == {i \in Wraps(n) : n.wrapok[i]}
Range(q) == {q[k] : k \in 1..Len(q)}
Started(n) == {i \in Wraps(n) : n.sess[i] # "none"}

\* C13: whatever wrap directories failed to open, the coordinator sends a
\* handle for the wraps that opened and no other, for all of them once its
\* loop has ended; the Mount Helper takes a handle for those wraps only, and
\* when it acknowledges it has taken every handle sent (none is left in the
\* socket) and every wrap that opened has its session, the others none; a
\* helper waiting for a handle after the coordinator's loop has ended finds
\* one; when no wrap opened the helper never waits for a handle.
C13_FailedWrapsSkipped ==
    /\ Range(ns.sent) \subseteq Opened(ns)
    /\ (ns.nwraps > 0 /\ ns.cpc \in {"read_fuse", "keep_caps", "exec"})
          => Range(ns.sent) = Opened(ns)
    /\ Started(ns) \subseteq Range(ns.sent)
    /\ ns.fack_sent =>
          /\ ns.f2h = << >>
          /\ Range(ns.sent) = Opened(ns)
          /\ \A i \in Wraps(ns) :
               ns.sess[i] = IF i \in Opened(ns) THEN "running" ELSE "none"
    /\ (ns.mpc = "recv" /\ ns.mi <= ns.nwraps /\ ns.cpc = "read_fuse")
          => (ns.wrapok[ns.mi] => ns.f2h # << >>)
    /\ (ns.nwraps > 0 /\ ns.mpc # "none" /\ Opened(ns) = {})
          => /\ ns.mpc \in {"recv", "write_ack", "exited"}
             /\ ns.f2h = << >>
             /\ Started(ns) = {}

\* setup completed with the first of two wraps failed to open
C13_Witness ==
    /\ ns.nwraps = 2
    /\ Opened(ns) = {2}
    /\ ns.got_fuse_ack
    /\ ns.sess[2] = "running"
    /\ ns.cpc = "exec"

\* C14: the session of wrap i is started only after the handle of wrap i has
\* been received; the coordinator mounts the wraps in list order and the
\* helper starts their sessions in the same order; the k-th handle received
\* goes to the session that holds the directory of the wrap the coordinator
\* mounted that handle on.
C14_HandleOrder ==
    /\ \A j, k \in 1..Len(ns.sent) : j < k => ns.sent[j] < ns.sent[k]
    /\ Cardinality(Started(ns)) + Len(ns.f2h) = Len(ns.sent)
    /\ \A k \in 1..Cardinality(Started(ns)) :
          /\ ns.sent[k] \in Started(ns)
          /\ ns.handle[ns.sent[k]] = ns.sent[k]
    /\ \A k \in 1..Len(ns.f2h) : ns.f2h[k] = ns.sent[Cardinality(Started(ns)) + k]

\* two sessions started, the second while the first is running
C14_Witness ==
    /\ ns.nwraps = 2
    /\ ns.sess[1] = "running"
    /\ ns.sess[2] = "starting"
    /\ ns.handle = <<1, 2>>

(***************************************************************************)
(* Claims about sidecars and corrupt records, checked under SpecFS         *)
(***************************************************************************)
UnlinkedOk == last'.op = "unlink" /\ last'.res = EOK /\ nops' = nops + 1

\* C15: after a successful unlink of a symlink through the driver the
\* sidecar of that symlink does not exist in the wrap root; a successful
\* unlink of a path that is not a symlink removes no sidecar.
UnlinkSidecar ==
    UnlinkedOk =>
        IF last'.path \in Names
        THEN IF inodes[last'.ino].kind = "lnk"
             THEN ~sidecar'[last'.ino].exists
             ELSE sidecar' = sidecar
        ELSE sidecar' = sidecar

C15_UnlinkRemovesSidecar == [][UnlinkSidecar]_vars

(***************************************************************************)
(* readdir: src/groot.c:734 grootfs_readdir                                *)
(*                                                                         *)
(* rd is a record: path (the wrap root or a subdirectory), dir (the names  *)
(* of the backing directory, or the path is no directory), stream (the     *)
(* entries the directory stream has not returned yet), out (the names      *)
(* handed to the filler), res.                                             *)
(***************************************************************************)
GrootPrefix == <<".", "g", "r", "o", "o", "t", ".">>

DirNames ==
    { <<".">>,
      <<"a">>,
      <<".", "g", "r", "o", "o", "t">>,
      <<".", "g", "r", "o", "o", "t", ".">>,
      <<".", "g", "r", "o", "o", "t", ".", "s", "y", "m", "l", "i", "n", "k", ".", "1", "_", "2">>,
      <<".", "g", "r", "o", "o", "t", "x">>,
      <<"g", "r", "o", "o", "t", ".", "x">>,
      <<".", "G", "R", "O", "O", "T", ".", "x">> }

RdStep(r) ==
    /\ rd' = r
    /\ UNCHANGED notReaddir

\* src/groot.c:746-764: openat (or a duplicate of basefd) and fdopendir
RdOpen ==
    /\ rd.pc = "open"
    /\ RdStep(IF rd.isdir THEN [rd EXCEPT !.stream = rd.dir, !.pc = "loop"]
                          ELSE [rd EXCEPT !.res = ENOENT, !.pc = "done"])

\* the loop turn that hides every name beginning with ".groot"
mutant_RdEntry(name) ==
    /\ rd.pc = "loop"
    /\ name \in rd.stream
    /\ RdStep([rd EXCEPT !.stream = @ \ {name},
                         !.out = IF has_prefix(name, SubSeq(GrootPrefix, 1, 6))
                                 THEN @ ELSE @ \cup {name}])

\* src/groot.c:766-778: one turn of the loop; readdir returns the entries in
\* any order
RdEntry(name) ==
    /\ rd.pc = "loop"
    /\ name \in rd.stream
    /\ RdStep([rd EXCEPT !.stream = @ \ {name},
                         !.out = IF has_prefix(name, GrootPrefix) THEN @ ELSE @ \cup {name}])

\* src/groot.c:781-782
RdReturn ==
    /\ rd.pc = "loop"
    /\ rd.stream = {}
    /\ RdStep([rd EXCEPT !.res = EOK, !.pc = "done"])

InitReaddir ==
    /\ \E p \in {"root", "sub"}, d \in SUBSET DirNames, isdir \in BOOLEAN :
         /\ isdir \/ (p = "sub" /\ d = {})
         /\ rd = [path |-> p, isdir |-> isdir, dir |-> d, stream |-> {}, out |-> {},
                  res |-> EOK, pc |-> "open"]
    /\ fs = [max_uid |-> NS_MAX_ID, max_gid |-> NS_MAX_ID]
    /\ dirents = [n \in Names |-> 0]
    /\ inodes = [i \in Ino |-> FreeInode]
    /\ sidecar = [i \in Ino |-> NoSidecar]
    /\ pending = Idle
    /\ claims = [i \in Ino |-> NoClaims]
    /\ last = OpRec("init", "a", EOK)
    /\ nops = 0
    /\ ns = NsIdle
    /\ im = ImIdle
    /\ kc = KcIdle
    /\ xa = XaIdle
    /\ lw = LwIdle
    /\ rc = RcIdle
    /\ sg = SgIdle
    /\ lx = LxIdle
    /\ oh = OhIdle
    /\ pl = PlIdle

NextReaddir ==
    \/ RdOpen
    \/ \E n \in DirNames : RdEntry(n)
    \/ RdReturn

SpecReaddir == InitReaddir /\ [][NextReaddir]_vars

BeginsWithGroot(name) ==
    IF Len(name) < 7 THEN FALSE
    ELSE /\ name[1] = "." /\ name[2] = "g" /\ name[3] = "r" /\ name[4] = "o"
         /\ name[5] = "o" /\ name[6] = "t" /\ name[7] = "."

\* C16: readdir on a directory of the wrap, the root or a subdirectory,
\* never yields a name that begins with ".groot.", and when it has returned
\* it has yielded every other entry of the backing directory.
C16_ReaddirHidesGroot ==
    /\ \A n \in rd.out : ~BeginsWithGroot(n) /\ n \in rd.dir
    /\ (rd.pc = "done" /\ rd.res = EOK)
          => rd.out = {n \in rd.dir : ~BeginsWithGroot(n)}

\* a listing of a directory that holds a sidecar, ".groot" and ".grootx"
C16_Witness ==
    /\ rd.pc = "done"
    /\ rd.res = EOK
    /\ \E n \in rd.dir : BeginsWithGroot(n)
    /\ <<".", "g", "r", "o", "o", "t">> \in rd.out
    /\ <<".", "g", "r", "o", "o", "t", "x">> \in rd.out

(***************************************************************************)
(* Extended attributes of one file: src/groot.c:1109 grootfs_setxattr,     *)
(* grootfs_getxattr, grootfs_listxattr, grootfs_removexattr                *)
(*                                                                         *)
(* xa is a record: attrs (the attributes of the backing file: a value, or  *)
(* 0 for an attribute that is not there, by backing name), last (the call  *)
(* that just returned), n (the number of calls made).                      *)
(***************************************************************************)
MaxXattrOps == 3
XATTR_CREATE == 1
XATTR_REPLACE == 2
ENODATA == 61

GROOT_CUSTOM_XATTR_PREFIX == <<"u", "s", "e", "r", ".", "g", "r", "o", "o", "t", "f", "s", ".">>
GROOT_DATA_XATTR == <<"u", "s", "e", "r", ".", "g", "r", "o", "o", "t", "f", "s">>
OtherXattr == <<"u", "s", "e", "r", ".", "o">>

\* the names a caller passes
XattrNames ==
    { <<"f">>, << >>, <<"g", "r", "o", "o", "t", "f", "s">>, GROOT_DATA_XATTR,
      GROOT_CUSTOM_XATTR_PREFIX \o <<"x">> }
XattrValues == {1, 2}
XattrFlags == {0, XATTR_CREATE, XATTR_REPLACE}

\* the backing name made with the prefix "user." alone
mutant_fake_name(name) == <<"u", "s", "e", "r", ".">> \o name

\* xasprintf (GROOT_CUSTOM_XATTR_PREFIX"%s", name)
fake_name(name) == GROOT_CUSTOM_XATTR_PREFIX \o name

BackingXattrNames == {GROOT_DATA_XATTR, OtherXattr} \cup {fake_name(n) : n \in XattrNames}

XaCall(op, name, res, val, list) ==
    [op |-> op, name |-> name, res |-> res, val |-> val, list |-> list]

XaStep(attrs, call) ==
    /\ xa.n < MaxXattrOps
    /\ xa' = [attrs |-> attrs, last |-> call, n |-> xa.n + 1]
    /\ UNCHANGED notXattr

\* src/groot.c:1109 grootfs_setxattr
Setxattr(name, value, flags) ==
    LET fake == fake_name(name)
        there == xa.attrs[fake] # 0
    IN  IF flags = XATTR_CREATE /\ there
        THEN XaStep(xa.attrs, XaCall("setxattr", name, EEXIST, value, {}))
        ELSE IF flags = XATTR_REPLACE /\ ~there
        THEN XaStep(xa.attrs, XaCall("setxattr", name, ENODATA, value, {}))
        ELSE XaStep([xa.attrs EXCEPT ![fake] = value],
                    XaCall("setxattr", name, EOK, value, {}))

\* src/groot.c:1129 grootfs_getxattr
Getxattr(name) ==
    LET fake == fake_name(name)
    IN  IF xa.attrs[fake] = 0
        THEN XaStep(xa.attrs, XaCall("getxattr", name, ENODATA, 0, {}))
        ELSE XaStep(xa.attrs, XaCall("getxattr", name, EOK, xa.attrs[fake], {}))

\* src/groot.c:1154 grootfs_listxattr with a buffer that is large enough: the
\* backing names that have the prefix, with the prefix taken off
Listxattr ==
    /\ xa.n < MaxXattrOps
    /\ LET real_list == {n \in BackingXattrNames : xa.attrs[n] # 0}
           fake_list == {SubSeq(n, Len(GROOT_CUSTOM_XATTR_PREFIX) + 1, Len(n)) :
                           n \in {m \in real_list : has_prefix(m, GROOT_CUSTOM_XATTR_PREFIX)}}
       IN  XaStep(xa.attrs, XaCall("listxattr", << >>, EOK, 0, fake_list))

\* src/groot.c:1238 grootfs_removexattr
Removexattr(name) ==
    LET fake == fake_name(name)
    IN  IF xa.attrs[fake] = 0
        THEN XaStep(xa.attrs, XaCall("removexattr", name, ENODATA, 0, {}))
        ELSE XaStep([xa.attrs EXCEPT ![fake] = 0], XaCall("removexattr", name, EOK, 0, {}))

InitXattr ==
    /\ \E rec \in {0, 1}, other \in {0, 1} :
         xa = [attrs |-> [n \in BackingXattrNames |->
                            IF n = GROOT_DATA_XATTR THEN rec
                            ELSE IF n = OtherXattr THEN other ELSE 0],
               last |-> XaCall("init", << >>, EOK, 0, {}), n |-> 0]
    /\ fs = [max_uid |-> NS_MAX_ID, max_gid |-> NS_MAX_ID]
    /\ dirents = [n \in Names |-> 0]
    /\ inodes = [i \in Ino |-> FreeInode]
    /\ sidecar = [i \in Ino |-> NoSidecar]
    /\ pending = Idle
    /\ claims = [i \in Ino |-> NoClaims]
    /\ last = OpRec("init", "a", EOK)
    /\ nops = 0
    /\ ns = NsIdle
    /\ im = ImIdle
    /\ kc = KcIdle
    /\ rd = RdIdle
    /\ lw = LwIdle
    /\ rc = RcIdle
    /\ sg = SgIdle
    /\ lx = LxIdle
    /\ oh = OhIdle
    /\ pl = PlIdle

NextXattr ==
    \/ \E n \in XattrNames, v \in XattrValues, f \in XattrFlags : Setxattr(n, v, f)
    \/ \E n \in XattrNames : Getxattr(n)
    \/ Listxattr
    \/ \E n \in XattrNames : Removexattr(n)

SpecXattr == InitXattr /\ [][NextXattr]_vars

\* C17: for every name n a caller passes, a getxattr (n) that follows a
\* successful setxattr (n, v) returns v and a listxattr that follows it
\* contains n; after every sequence of setxattr and removexattr calls
\* listxattr contains neither 'user.grootfs' nor a name that begins with
\* 'user.grootfs.'.
XattrRoundTrip ==
    (xa.last.op = "setxattr" /\ xa.last.res = EOK /\ xa'.n = xa.n + 1) =>
        /\ (xa'.last.op = "getxattr" /\ xa'.last.name = xa.last.name)
              => (xa'.last.res = EOK /\ xa'.last.val = xa.last.val)
        /\ xa'.last.op = "listxattr" => xa.last.name \in xa'.last.list

XattrListHidesRecord ==
    xa'.last.op = "listxattr" =>
        \A n \in xa'.last.list :
            n # GROOT_DATA_XATTR /\ ~has_prefix(n, GROOT_CUSTOM_XATTR_PREFIX)

C17_XattrRoundTrip == [][XattrRoundTrip /\ XattrListHidesRecord]_vars

(***************************************************************************)
(* Sequences of updates on one file.  Two copies l and r of one backing    *)
(* directory each run their own sequence of the driver's operations on the *)
(* path LawPath and end with getattr; a law names the two sequences.       *)
(***************************************************************************)
LawPath == "a"
LawNames == {"commute", "split", "again_chmod", "again_chown", "fresh_mkdir", "fresh_create"}
Worlds == {"l", "r"}

LwOp(op, mode, uid, gid, cred) ==
    [op |-> op, mode |-> mode, uid |-> uid, gid |-> gid, cred |-> cred]
NoCred == [uid |-> 0, gid |-> 0]
LwChmodOp(m) == LwOp("chmod", m, NO_ID, NO_ID, NoCred)
LwChownOp(u, g) == LwOp("chown", 0, u, g, NoCred)
LwGetattrOp == LwOp("getattr", 0, NO_ID, NO_ID, NoCred)
NoGot == [res |-> EOK, st_mode |-> 0, st_uid |-> 0, st_gid |-> 0]

\* inodes that updates ran on before: a record with one field claimed, and
\* a directory with all three
LawInodes ==
    PreInodes \cup
    { [kind |-> "reg", mode |-> 420, uid |-> DRIVER_ID, gid |-> DRIVER_ID,
       xattr |-> Attr(fake_data_htonl([flags |-> GROOTFS_FLAGS_UID_SET,
                                       uid |-> 2, gid |-> 0, mode |-> 0]))],
      [kind |-> "dir", mode |-> 493, uid |-> DRIVER_ID, gid |-> DRIVER_ID,
       xattr |-> Attr(fake_data_htonl(NewData(448, [uid |-> 2, gid |-> 2])))] }

\* the two sequences of a law on a file of the given kind
LawTodo(law, kind, m, u, g, nm, c) ==
    LET remove == LwOp(IF kind = "dir" THEN "rmdir" ELSE "unlink", 0, NO_ID, NO_ID, NoCred)
        setters == IF kind = "lnk" THEN <<LwChownOp(u, g)>>
                   ELSE <<LwChownOp(u, g), LwChmodOp(m)>>
        mk == LwOp("mkdir", nm, NO_ID, NO_ID, c)
        cr == LwOp("create", nm, NO_ID, NO_ID, c)
    IN  CASE law = "commute" ->
               [l |-> <<LwChmodOp(m), LwChownOp(u, g), LwGetattrOp>>,
                r |-> <<LwChownOp(u, g), LwChmodOp(m), LwGetattrOp>>]
          [] law = "split" ->
               [l |-> <<LwChownOp(u, NO_ID), LwChownOp(NO_ID, g), LwGetattrOp>>,
                r |-> <<LwChownOp(u, g), LwGetattrOp>>]
          [] law = "again_chmod" ->
               [l |-> <<LwChmodOp(m), LwChmodOp(m), LwGetattrOp>>,
                r |-> <<LwChmodOp(m), LwGetattrOp>>]
          [] law = "again_chown" ->
               [l |-> <<LwChownOp(u, g), LwChownOp(u, g), LwGetattrOp>>,
                r |-> <<LwChownOp(u, g), LwGetattrOp>>]
          [] law = "fresh_mkdir" ->
               [l |-> setters \o <<remove, mk, LwGetattrOp>>,
                r |-> <<remove, mk, LwGetattrOp>>]
          [] OTHER ->
               [l |-> setters \o <<remove, cr, LwGetattrOp>>,
                r |-> <<remove, cr, LwGetattrOp>>]

\* FUSE resolves symbolic links before it calls chmod
LawHasChmod(law) == law \in {"commute", "again_chmod"}

\* src/groot.c:965 do_open for create (O_CREAT, no O_EXCL from the caller) with
\* no other process between its two openat calls; i is the inode number the
\* first openat gets when it creates the file
do_open(bk, path, mode, cred, i, xok) ==
    LET real_mode == get_real_mode(FALSE, HasBit(mode, S_IXUSR))
        bk1 == NewEntry(bk, path, i, "reg", real_mode)
    IN  IF bk.d[path] # 0
        THEN IF bk.i[bk.d[path]].kind = "reg"
             THEN [res |-> EOK, bk |-> bk]       \* created_file = FALSE
             ELSE [res |-> EIO, bk |-> bk]       \* EISDIR
        ELSE IF ~xok THEN [res |-> EIO, bk |-> bk1]
        ELSE [res |-> EOK,
              bk |-> [bk1 EXCEPT !.i[i].xattr = Attr(fake_data_htonl(NewData(mode, cred)))]]

LwHead(w) == Head(lw[w].todo)
LwCan(w, op) == lw.pc = "run" /\ lw[w].todo # << >> /\ LwHead(w).op = op
LwStep(w, bk, got) ==
    /\ lw' = [lw EXCEPT ![w] = [bk |-> bk, todo |-> Tail(lw[w].todo), got |-> got]]
    /\ UNCHANGED notLaws

LwChmod(w) ==
    /\ LwCan(w, "chmod")
    /\ LwStep(w, grootfs_chmod(lw[w].bk, LawPath, LwHead(w).mode, lw.xok).bk, lw[w].got)

LwChown(w) ==
    /\ LwCan(w, "chown")
    /\ LwStep(w, grootfs_chown(lw[w].bk, LawPath, LwHead(w).uid, LwHead(w).gid, lw.xok).bk,
              lw[w].got)

LwUnlink(w) ==
    /\ LwCan(w, "unlink")
    /\ LwStep(w, grootfs_unlink(lw[w].bk, LawPath).bk, lw[w].got)

LwRmdir(w) ==
    /\ LwCan(w, "rmdir")
    /\ LwStep(w, grootfs_rmdir(lw[w].bk, LawPath).bk, lw[w].got)

LwMkdir(w) ==
    /\ LwCan(w, "mkdir")
    /\ \E i \in FreeInos(lw[w].bk) :
         LwStep(w, grootfs_mkdir(lw[w].bk, LawPath, LwHead(w).mode, LwHead(w).cred,
                                 i, lw.xok).bk, lw[w].got)

LwCreate(w) ==
    /\ LwCan(w, "create")
    /\ \E i \in FreeInos(lw[w].bk) :
         LwStep(w, do_open(lw[w].bk, LawPath, LwHead(w).mode, LwHead(w).cred,
                           i, lw.xok).bk, lw[w].got)

LwGetattr(w) ==
    /\ LwCan(w, "getattr")
    /\ LET r == grootfs_getattr(lw[w].bk, LawPath)
       IN  LwStep(w, lw[w].bk, [res |-> r.res, st_mode |-> r.st.st_mode,
                                st_uid |-> r.st.st_uid, st_gid |-> r.st.st_gid])

InitLaws ==
    /\ fs = [max_uid |-> NS_MAX_ID, max_gid |-> NS_MAX_ID]
    /\ dirents = [n \in Names |-> 0]
    /\ inodes = [i \in Ino |-> FreeInode]
    /\ sidecar = [i \in Ino |-> NoSidecar]
    /\ pending = Idle
    /\ claims = [i \in Ino |-> NoClaims]
    /\ last = OpRec("init", "a", EOK)
    /\ nops = 0
    /\ ns = NsIdle
    /\ im = ImIdle
    /\ kc = KcIdle
    /\ rd = RdIdle
    /\ xa = XaIdle
    /\ rc = RcIdle
    /\ sg = SgIdle
    /\ lx = LxIdle
    /\ oh = OhIdle
    /\ pl = PlIdle
    /\ \E pre \in LawInodes, law \in LawNames, m \in ModeArgs, u \in UidArgs,
          g \in GidArgs, nm \in NewModes, c \in Creds, xok \in BOOLEAN :
         LET bk0 == [d |-> [n \in Names |-> IF n = LawPath THEN 1 ELSE 0],
                     i |-> [i \in Ino |-> IF i = 1 THEN pre ELSE FreeInode],
                     s |-> [i \in Ino |-> NoSidecar]]
             todo == LawTodo(law, pre.kind, m, u, g, nm, c)
         IN  /\ LawHasChmod(law) => pre.kind # "lnk"
             /\ lw = [pc |-> "run", law |-> law, xok |-> xok,
                      l |-> [bk |-> bk0, todo |-> todo.l, got |-> NoGot],
                      r |-> [bk |-> bk0, todo |-> todo.r, got |-> NoGot]]

NextLaws ==
    \/ \E w \in Worlds : LwChmod(w)
    \/ \E w \in Worlds : LwChown(w)
    \/ \E w \in Worlds : LwUnlink(w)
    \/ \E w \in Worlds : LwRmdir(w)
    \/ \E w \in Worlds : LwMkdir(w)
    \/ \E w \in Worlds : LwCreate(w)
    \/ \E w \in Worlds : LwGetattr(w)

SpecLaws == InitLaws /\ [][NextLaws]_vars

LwDone == lw.pc = "run" /\ lw.l.todo = << >> /\ lw.r.todo = << >>

\* C18: for updates run one after the other on one file, getattr depends only
\* on the record they leave: chmod and chown in either order, chown (u, -1)
\* then chown (-1, g) against chown (u, g), a chmod or a chown done twice
\* against once, and a mkdir or create that writes a fresh record after
\* earlier updates against the same mkdir or create without them, all end with
\* the same getattr result.
C18_GetattrFromRecord == LwDone => lw.l.got = lw.r.got

\* chmod and chown ran in both orders and getattr reports all three claims
C18_Witness ==
    /\ LwDone
    /\ lw.law = "commute"
    /\ lw.l.got.res = EOK
    /\ StoredData(lw.l.bk.i, lw.l.bk.s, 1).flags =
          GROOTFS_FLAGS_UID_SET + GROOTFS_FLAGS_GID_SET + GROOTFS_FLAGS_MODE_SET
    /\ lw.l.got.st_uid = 1
    /\ PermBits(lw.l.got.st_mode) = 2541

(***************************************************************************)
(* Claims about absent and damaged records (SpecFS)                        *)
(***************************************************************************)
\* the attribute that holds the record of inode i (a symlink's is its sidecar's)
RecordAttr(it, sc, i) == IF it[i].kind = "lnk" THEN sc[i].xattr ELSE it[i].xattr

\* the step is one of `ops` on a path that existed before it
StepOn(ops) ==
    /\ nops' = nops + 1
    /\ last'.op \in ops
    /\ last'.path \in Names
    /\ dirents[last'.path] # 0

\* no record attribute, and the driver owns the backing inode (fchmodat is allowed)
AbsentRecordOk ==
    (/\ StepOn({"getattr", "chmod", "chown"})
     /\ ~RecordAttr(inodes, sidecar, dirents[last'.path]).present
     /\ inodes[dirents[last'.path]].uid = DRIVER_ID)
        => last'.res = EOK

\* a record attribute of the wrong length
WrongLengthIsEIO ==
    (/\ StepOn({"getattr", "chmod", "chown", "unlink"})
     /\ RecordAttr(inodes, sidecar, dirents[last'.path]).present
     /\ Len(RecordAttr(inodes, sidecar, dirents[last'.path]).val) # RECORD_SIZE)
        => /\ last'.res = EIO
           /\ UNCHANGED <<dirents, inodes, sidecar>>

\* C19: getattr, chmod and chown on a file without a record attribute (absent,
\* or the filesystem has no extended attributes) take the all-zero record and
\* return no error; getattr, chmod, chown and unlink on a file whose record
\* attribute is not 16 bytes long return the I/O error and change neither the
\* record, nor the real permission bits, nor the directory entry.
C19_RecordErrors == [][AbsentRecordOk /\ WrongLengthIsEIO]_vars

(***************************************************************************)
(* Claim about access (SpecFS)                                             *)
(***************************************************************************)
\* C20: access with W_OK on a path that exists under the wrap returns success,
\* whatever the real permission bits of the backing inode are.
C20_AccessWritable ==
    (last.op = "access" /\ last.mode = W_OK /\ last.ino # 0) => last.res = EOK

(***************************************************************************)
(* Claim about hard links (SpecFS)                                         *)
(***************************************************************************)
\* what getattr reports of uid, gid and mode
Reported(bk, path) ==
    LET r == grootfs_getattr(bk, path)
    IN  [res |-> r.res, uid |-> r.st.st_uid, gid |-> r.st.st_gid, mode |-> r.st.st_mode]

\* two names of one inode
LinkedNames == {p \in Names \X Names : p[1] # p[2] /\ dirents[p[1]] # 0
                                       /\ dirents[p[1]] = dirents[p[2]]}

LinkedSameReport ==
    \A p \in LinkedNames : Reported(Backing, p[1]) = Reported(Backing, p[2])

LinkedSeeUpdates ==
    \A p \in LinkedNames :
       /\ \A u \in UidArgs, g \in GidArgs :
            LET bk1 == grootfs_chown(Backing, p[1], u, g, TRUE).bk
            IN  Reported(bk1, p[1]) = Reported(bk1, p[2])
       /\ \A m \in ModeArgs :
            NotLink(p[1]) =>
               LET bk1 == grootfs_chmod(Backing, p[1], m, TRUE).bk
               IN  Reported(bk1, p[1]) = Reported(bk1, p[2])

LinkedSurviveUnlink ==
    \A p \in LinkedNames :
       LET r == grootfs_unlink(Backing, p[1])
       IN  r.res = EOK => Reported(r.bk, p[2]) = Reported(Backing, p[2])

\* C21: two names of one inode report the same uid, gid and mode, a chmod or
\* chown through one name shows through the other, and the unlink of one name
\* leaves what the other reports as it was.
C21_LinksShareRecord == LinkedSameReport /\ LinkedSeeUpdates /\ LinkedSurviveUnlink

(***************************************************************************)
(* Claim about the record of a symlink (SpecFS)                            *)
(***************************************************************************)
BackingAfter == [d |-> dirents', i |-> inodes', s |-> sidecar']

SymlinkStoresRecord ==
    (last'.op = "symlink" /\ last'.res = EOK /\ nops' = nops + 1) =>
       LET i == last'.ino
           rep == Reported(BackingAfter, last'.path)
       IN  /\ sidecar'[i].exists
           /\ sidecar'[i].xattr.present
           /\ LET data == get_fake_data(TRUE, sidecar'[i].xattr, TRUE).data
              IN  /\ data.flags = GROOTFS_FLAGS_UID_SET + GROOTFS_FLAGS_GID_SET
                  /\ data.uid = last'.cred.uid
                  /\ data.gid = last'.cred.gid
           /\ rep.res = EOK
           /\ rep.uid = last'.cred.uid
           /\ rep.gid = last'.cred.gid

ChownUpdatesSidecar ==
    (/\ last'.op = "chown" /\ last'.res = EOK /\ nops' = nops + 1
     /\ inodes[last'.ino].kind = "lnk") =>
       LET i == last'.ino
           data == get_fake_data(sidecar'[i].exists, sidecar'[i].xattr, TRUE).data
           rep == Reported(BackingAfter, last'.path)
       IN  /\ sidecar'[i].exists
           /\ last'.uid # NO_ID =>
                 /\ HasBit(data.flags, GROOTFS_FLAGS_UID_SET) /\ data.uid = last'.uid
                 /\ rep.uid = Capped(last'.uid, fs.max_uid)
           /\ last'.gid # NO_ID =>
                 /\ HasBit(data.flags, GROOTFS_FLAGS_GID_SET) /\ data.gid = last'.gid
                 /\ rep.gid = Capped(last'.gid, fs.max_gid)

\* C22: a symlink call that returns success has stored, in the sidecar keyed by
\* the new link's inode, a record with exactly the uid and gid flags and the
\* caller's uid and gid, and getattr of the link reports them; a later chown of
\* the link updates that sidecar and is what getattr reports.
C22_SymlinkRecord == [][SymlinkStoresRecord /\ ChownUpdatesSidecar]_vars

(***************************************************************************)
(* Claim about mknod (SpecFS)                                              *)
(***************************************************************************)
MknodRefused ==
    (last'.op = "mknod" /\ nops' = nops + 1) =>
        /\ last'.res = EROFS
        /\ UNCHANGED <<dirents, inodes, sidecar>>

\* C23: mknod returns the read-only-filesystem error for every path, mode and
\* device, and changes neither the backing directory nor any record.
C23_MknodReadOnly == [][MknodRefused]_vars

\* mknod was asked for a name that does not exist, and for one that carries a record
C23_Witness ==
    /\ last.op = "mknod" /\ last.res = EROFS
    /\ dirents[last.path] = 0
    /\ \E n \in Names : dirents[n] # 0 /\ inodes[dirents[n]].xattr.present

(***************************************************************************)
(* A chmod and a chown on one file that overlap: two driver instances      *)
(* serve one backing directory, and each runs its operation system call by *)
(* system call: read the record, (chmod: fchmodat,) write the whole record.*)
(***************************************************************************)
RacePath == "a"
RaceOps == {"chmod", "chown"}

RcStep(bk, p, proc) ==
    /\ rc' = [rc EXCEPT !.bk = bk, !.proc[p] = proc]
    /\ UNCHANGED notRace

\* src/groot.c:563 groot_path_info_init_path: fstatat and lgetxattr
RcRead(p) ==
    /\ rc.pc = "run"
    /\ rc.proc[p].pc = "start"
    /\ LET info == groot_path_info_init_path(rc.bk, RacePath, FALSE)
       IN  RcStep(rc.bk, p,
                  [pc |-> IF info.res # EOK THEN "done"
                          ELSE IF p = "chmod" THEN "fchmodat" ELSE "update",
                   info |-> info, res |-> info.res])

\* src/groot.c:669 grootfs_chmod: fchmodat, then the new mode in the record read
RcFchmodat ==
    /\ rc.pc = "run"
    /\ rc.proc["chmod"].pc = "fchmodat"
    /\ LET info == rc.proc["chmod"].info
           real_mode == get_real_mode(S_ISDIR(info.st_data.st_mode), HasBit(rc.mode, S_IXUSR))
       IN  IF rc.bk.i[info.ino].uid # DRIVER_ID
           THEN RcStep(rc.bk, "chmod", [pc |-> "done", info |-> info, res |-> EPERM])
           ELSE RcStep([rc.bk EXCEPT !.i[info.ino].mode = real_mode], "chmod",
                       [pc |-> "update",
                        info |-> [info EXCEPT !.fake_data.mode = PermBits(rc.mode),
                                              !.fake_data.flags = OrBit(@, GROOTFS_FLAGS_MODE_SET)],
                        res |-> EOK])

\* src/groot.c:693 grootfs_chown: the new ids in the record read
RcChownData(info) ==
    LET info1 == IF rc.uid # NO_ID
                 THEN [info EXCEPT !.fake_data.uid = rc.uid,
                                   !.fake_data.flags = OrBit(@, GROOTFS_FLAGS_UID_SET)]
                 ELSE info
    IN  IF rc.gid # NO_ID
        THEN [info1 EXCEPT !.fake_data.gid = rc.gid,
                           !.fake_data.flags = OrBit(@, GROOTFS_FLAGS_GID_SET)]
        ELSE info1

\* src/groot.c:593 groot_path_info_update_data: lsetxattr of the whole record
RcUpdate(p) ==
    /\ rc.pc = "run"
    /\ rc.proc[p].pc = "update"
    /\ LET info == IF p = "chown" THEN RcChownData(rc.proc[p].info) ELSE rc.proc[p].info
           u == groot_path_info_update_data(rc.bk, info, TRUE)
       IN  RcStep(u.bk, p, [pc |-> "done", info |-> info, res |-> u.res])

InitRace ==
    /\ fs = [max_uid |-> NS_MAX_ID, max_gid |-> NS_MAX_ID]
    /\ dirents = [n \in Names |-> 0]
    /\ inodes = [i \in Ino |-> FreeInode]
    /\ sidecar = [i \in Ino |-> NoSidecar]
    /\ pending = Idle
    /\ claims = [i \in Ino |-> NoClaims]
    /\ last = OpRec("init", "a", EOK)
    /\ nops = 0
    /\ ns = NsIdle
    /\ im = ImIdle
    /\ kc = KcIdle
    /\ rd = RdIdle
    /\ xa = XaIdle
    /\ lw = LwIdle
    /\ sg = SgIdle
    /\ lx = LxIdle
    /\ oh = OhIdle
    /\ pl = PlIdle
    /\ \E pre \in LawInodes, m \in ModeArgs, u \in UidArgs, g \in GidArgs :
         LET bk0 == [d |-> [n \in Names |-> IF n = RacePath THEN 1 ELSE 0],
                     i |-> [i \in Ino |-> IF i = 1 THEN pre ELSE FreeInode],
                     s |-> [i \in Ino |-> NoSidecar]]
         IN  /\ pre.kind # "lnk"
             /\ rc = [pc |-> "run", bk0 |-> bk0, bk |-> bk0, mode |-> m, uid |-> u, gid |-> g,
                      proc |-> [p \in RaceOps |->
                                  [pc |-> "start", info |-> NoInfo(EOK), res |-> EOK]]]

NextRace ==
    \/ \E p \in RaceOps : RcRead(p)
    \/ RcFchmodat
    \/ \E p \in RaceOps : RcUpdate(p)

SpecRace == InitRace /\ [][NextRace]_vars

\* the records the two serial orders leave
SerialRecords ==
    LET a1 == grootfs_chmod(rc.bk0, RacePath, rc.mode, TRUE).bk
        a2 == grootfs_chown(a1, RacePath, rc.uid, rc.gid, TRUE).bk
        b1 == grootfs_chown(rc.bk0, RacePath, rc.uid, rc.gid, TRUE).bk
        b2 == grootfs_chmod(b1, RacePath, rc.mode, TRUE).bk
    IN  {StoredData(a2.i, a2.s, 1), StoredData(b2.i, b2.s, 1)}

\* C24: when a chmod and a chown of one inode overlap and both return success,
\* the record they leave is the record of one of the two serial orders:
\* neither update is lost.
C24_NoLostUpdate ==
    (/\ rc.pc = "run"
     /\ \A p \in RaceOps : rc.proc[p].pc = "done" /\ rc.proc[p].res = EOK)
        => StoredData(rc.bk.i, rc.bk.s, 1) \in SerialRecords

(***************************************************************************)
(* One session process from set_signal_handlers on: the handlers, the      *)
(* request loop of fuse_loop over dev_fuse_chan_receive, the unmount.      *)
(* Signals, requests and device errors come from outside.                  *)
(***************************************************************************)
MaxRequests == 2
EINTR == 4
ENODEV == 19
ExitSignals == <<"SIGHUP", "SIGINT", "SIGTERM">>     \* in the order they are installed
SigNames == {ExitSignals[k] : k \in 1..Len(ExitSignals)}
SgRunning == {"install", "assign", "status", "check", "read", "received"}
SgReturned == {"exit", "died"}

SgStep(s) ==
    /\ sg' = s
    /\ UNCHANGED notSignal

\* src/groot.c:1447 set_signal_handlers: one set_one_signal_handler call
SgInstall ==
    /\ sg.pc = "install"
    /\ LET k == Cardinality(sg.handlers) + 1
       IN  SgStep([sg EXCEPT !.handlers = @ \cup {ExitSignals[k]},
                             !.pc = IF k = Len(ExitSignals) THEN "assign" ELSE "install"])

\* src/groot.c:1453 fuse_instance = se
SgAssign ==
    /\ sg.pc = "assign"
    /\ SgStep([sg EXCEPT !.instance = TRUE, !.pc = "status"])

\* src/groot.c:1527 the readiness byte on the status pipe
SgWriteStatus ==
    /\ sg.pc = "status"
    /\ SgStep([sg EXCEPT !.pc = "check"])

\* fuse_loop: while (!fuse_session_exited (se)) receive and process
SgLoopCheck ==
    /\ sg.pc = "check"
    /\ SgStep(IF sg.exited THEN [sg EXCEPT !.pc = "unmount", !.res = 0]
                           ELSE [sg EXCEPT !.pc = "read"])

\* src/groot.c:1341 read of the FUSE device returns a request
SgReadRequest ==
    /\ sg.pc = "read"
    /\ sg.nreq < MaxRequests
    /\ SgStep([sg EXCEPT !.pc = "received", !.err = EOK, !.nreq = @ + 1])

\* src/groot.c:1341 read of the FUSE device fails: unmounted, or an I/O error
SgReadError(err) ==
    /\ sg.pc = "read"
    /\ SgStep([sg EXCEPT !.pc = "received", !.err = err])

\* src/groot.c:1344 dev_fuse_chan_receive after the read, and the loop's
\* reaction to what it returns
SgReceive ==
    /\ sg.pc = "received"
    /\ SgStep(IF sg.exited THEN [sg EXCEPT !.pc = "unmount", !.res = 0]
              ELSE IF sg.err = ENODEV
              THEN [sg EXCEPT !.exited = TRUE, !.pc = "unmount", !.res = 0]
              ELSE IF sg.err = EINTR THEN [sg EXCEPT !.pc = "check"]
              ELSE IF sg.err = EIO THEN [sg EXCEPT !.pc = "unmount", !.res = -1]
              ELSE [sg EXCEPT !.pc = "check"])       \* the request is processed

\* src/groot.c:1532 fuse_unmount, then die or exit
SgUnmount ==
    /\ sg.pc = "unmount"
    /\ SgStep([sg EXCEPT !.mounted = FALSE, !.pc = IF sg.res = -1 THEN "died" ELSE "exit"])

\* src/groot.c:1414 exit_handler run for a signal whose handler is installed
\* (sa_flags = 0: a blocked read returns EINTR); the default action of a
\* signal whose handler is not yet installed ends the process
SgSignal(s) ==
    /\ sg.pc \in SgRunning
    /\ s \notin sg.sigs
    /\ SgStep(IF s \notin sg.handlers THEN [sg EXCEPT !.pc = "killed"]
              ELSE [sg EXCEPT !.sigs = @ \cup {s},
                              !.exited = @ \/ sg.instance,
                              !.pc = IF @ = "read" THEN "received" ELSE @,
                              !.err = IF sg.pc = "read" THEN EINTR ELSE @])

InitSignal ==
    /\ fs = [max_uid |-> NS_MAX_ID, max_gid |-> NS_MAX_ID]
    /\ dirents = [n \in Names |-> 0]
    /\ inodes = [i \in Ino |-> FreeInode]
    /\ sidecar = [i \in Ino |-> NoSidecar]
    /\ pending = Idle
    /\ claims = [i \in Ino |-> NoClaims]
    /\ last = OpRec("init", "a", EOK)
    /\ nops = 0
    /\ ns = NsIdle
    /\ im = ImIdle
    /\ kc = KcIdle
    /\ rd = RdIdle
    /\ xa = XaIdle
    /\ lw = LwIdle
    /\ rc = RcIdle
    /\ sg = [pc |-> "install", handlers |-> {}, instance |-> FALSE, exited |-> FALSE,
             sigs |-> {}, nreq |-> 0, err |-> EOK, res |-> 0, mounted |-> TRUE]
    /\ lx = LxIdle
    /\ oh = OhIdle
    /\ pl = PlIdle

SgProcess ==
    SgInstall \/ SgAssign \/ SgWriteStatus \/ SgLoopCheck \/ SgReceive \/ SgUnmount

NextSignal ==
    \/ SgInstall
    \/ SgAssign
    \/ SgWriteStatus
    \/ SgLoopCheck
    \/ SgReadRequest
    \/ \E err \in {ENODEV, EIO} : SgReadError(err)
    \/ SgReceive
    \/ SgUnmount
    \/ \E s \in SigNames : SgSignal(s)

\* the process runs whenever it is not blocked; nothing promises a signal, a
\* request or a device error
SpecSignal == InitSignal /\ [][NextSignal]_vars /\ WF_vars(SgProcess)

\* C25: a SIGHUP, SIGINT or SIGTERM delivered at any moment after
\* set_signal_handlers has begun leads to the loop returning, with no further
\* request needed, and to the unmount of the wrap before the process ends; the
\* wrap is unmounted whenever the loop has returned, also with an error.
\* Stated for the signals delivered once all three handlers are installed
\* (from the assignment of fuse_instance on), which no default action can end.
C25_SignalStopsLoop ==
    /\ [](sg.pc \in SgReturned => ~sg.mounted)
    /\ (sg.pc # "none" /\ sg.handlers = SigNames /\ sg.sigs # {})
          ~> (sg.pc \in SgReturned /\ ~sg.mounted)

(***************************************************************************)
(* Claim about the life of a sidecar (SpecFS)                              *)
(***************************************************************************)
\* C26: after any sequence of driver operations every sidecar file of the wrap
\* root belongs to a symlink that still exists with that inode number; no
\* sidecar outlives its symlink.
C26_SidecarHasSymlink ==
    \A i \in Ino : sidecar[i].exists =>
        /\ inodes[i].kind = "lnk"
        /\ \E n \in Names : dirents[n] = i

(***************************************************************************)
(* Claim about the reserved names (SpecFS)                                 *)
(***************************************************************************)
SidecarOnlyThroughSymlink ==
    \A i \in Ino :
       sidecar'[i] # sidecar[i] =>
          /\ last'.op \in {"chown", "chmod", "symlink", "unlink"}
          /\ last'.path \in Names
          /\ last'.ino = i
          /\ inodes[i].kind = "lnk" \/ inodes'[i].kind = "lnk"

\* C27: names beginning with .groot. are reserved: no operation a caller issues
\* creates, changes or removes such an entry, so the sidecar of a symlink
\* changes only through chown, chmod, symlink or unlink on that symlink.
C27_GrootNamesReserved == [][SidecarOnlyThroughSymlink]_vars

(***************************************************************************)
(* Claim about the real permission bits (SpecFS)                           *)
(***************************************************************************)
\* the real bits the driver may give a directory or a regular file
RealBitsOf(kind) == IF kind = "dir" THEN {493} ELSE {420, 493}     \* 0755; 0644, 0755

\* every step that makes a directory or regular file, or changes its real bits
RealBitsStep ==
    \A i \in Ino :
       (/\ inodes'[i].kind \in {"dir", "reg"}
        /\ <<inodes'[i].kind, inodes'[i].mode>> # <<inodes[i].kind, inodes[i].mode>>)
          => inodes'[i].mode \in RealBitsOf(inodes'[i].kind)

HandleHolders(n, k) ==
    (IF n.cpc # "dead" /\ k \in n.cheld THEN {-1} ELSE {})
    \cup (IF MAlive(n) /\ k \in n.mheld THEN {0} ELSE {})
    \cup {i \in Wraps(n) : SessAlive(n, i) /\ k \in n.held[i]}

MountAttempted(n) == n.sent # << >> \/ n.cerr \in {"mount", "send_fd"}

\* each step of groot_setup_ns has the steps before it behind it
StepOrder ==
    /\ ns.no_new_privs => (ns.upc # "none" /\ (ns.nwraps > 0 => ns.mpc # "none"))
    /\ ns.unshared => ns.no_new_privs
    /\ ns.wake_written => ns.unshared
    /\ ns.got_uid_ack => ns.wake_written
    /\ MountAttempted(ns) => ns.wake_written
    /\ ns.got_fuse_ack => (Range(ns.sent) = Opened(ns))
    /\ ns.cpc \in {"keep_caps", "exec"} => (ns.nwraps > 0 => ns.got_fuse_ack)

\* C31: the coordinator's steps occur in the order: helpers spawned,
\* no-new-privs set, namespaces created, wake byte written and mapping
\* acknowledgement read, wraps mounted and handles sent, Mount Helper
\* acknowledgement read, capabilities raised, execve; no mount is attempted
\* before the mapping acknowledgement has been read, and execve never
\* happens without no-new-privs.
C31_StepOrder ==
    /\ StepOrder
    /\ MountAttempted(ns) => ns.got_uid_ack
    /\ ns.cpc = "exec" => ns.no_new_privs

\* a decimal number as strtol reads one: white space, an optional sign, and
\* at least one digit up to the end of the field
IsDecimal(str) ==
    \E i \in 1..Len(str) :
        /\ \A j \in i..Len(str) : IsDigit(str[j])
        /\ \A j \in 1..(i - 1) : IsSpace(str[j]) \/ (j = i - 1 /\ str[j] \in {"-", "+"})

\* the line starts with the login name and ':', and the rest is a start
\* field, ':' and a count field, both decimal numbers
LineForCaller(line) ==
    /\ Len(line) > Len(Username)
    /\ SubSeq(line, 1, Len(Username)) = Username
    /\ line[Len(Username) + 1] = ":"
    /\ \E c \in (Len(Username) + 2)..Len(line) :
          /\ line[c] = ":"
          /\ IsDecimal(SubSeq(line, Len(Username) + 2, c - 1))
          /\ IsDecimal(SubSeq(line, c + 1, Len(line)))

LineContributes ==
    (im.pc = "lines" /\ im.line_iterator # 0 /\ im'.pc = "lines") =>
        \/ LineForCaller(im.content[im.line_iterator])
        \/ (im'.mapping = im.mapping /\ im'.next_id = im.next_id)

\* C32: a line of the sub-ID file adds a triple only if it starts with the
\* caller's login name and ':' and its start and count fields are both
\* well-formed decimal numbers; any other line (another user's, a name that
\* only has the caller's as a prefix, an empty, non-numeric or trailing-
\* character field) adds no triple and leaves next_id as it was.
C32_OnlyWellFormedLines == [][LineContributes]_vars

(***************************************************************************)
(* One grootfs_listxattr call: src/groot.c:1154                            *)
(*                                                                         *)
(* A buffer is a sequence of bytes, a byte a one-character string or NUL.  *)
(* lx is a record:                                                         *)
(*   size           the size the caller passed                             *)
(*   buf_size, buf  the driver's buffer: its size and what llistxattr put  *)
(*                  into it                                                *)
(*   real           the backing attribute names the last llistxattr saw    *)
(*   res, out       the value returned (a count, or minus an errno) and    *)
(*                  the bytes written to the caller's list                 *)
(***************************************************************************)
\* sizeof (buf_data), 4096 in the source, scaled to the names below
BufData == 16
ERANGE == 34
ENOTSUP == 95
NUL == "NUL"

\* the attributes the backing file may have, in the order llistxattr gives
LxBackingNames ==
    << GROOT_DATA_XATTR, fake_name(<<"f">>), GROOT_CUSTOM_XATTR_PREFIX,
       OtherXattr, fake_name(GROOT_DATA_XATTR) >>

LxLists ==
    {SelectSeq(LxBackingNames, LAMBDA n : n \in S) : S \in SUBSET Range(LxBackingNames)}

LxSizes == {0, 1, 2, 3, 14, 16}

\* the names, each followed by its NUL
RECURSIVE ListBytes(_)
ListBytes(names) ==
    IF names = << >> THEN << >>
    ELSE Head(names) \o <<NUL>> \o ListBytes(Tail(names))

\* llistxattr (proc_file, buf, buf_size) on a file with these names
llistxattr(names, buf_size) ==
    IF Len(ListBytes(names)) > buf_size
    THEN [res |-> -1, errno |-> ERANGE, buf |-> << >>]
    ELSE [res |-> Len(ListBytes(names)), errno |-> 0, buf |-> ListBytes(names)]

\* strlen of the string that starts at index i of buf
strlen(buf, i) ==
    (CHOOSE j \in i..Len(buf) : buf[j] = NUL /\ \A k \in i..(j - 1) : buf[k] # NUL) - i

\* the first loop that counts every name of the buffer with its full length
RECURSIVE mutant_FakeSize(_, _)
mutant_FakeSize(buf, real_list) ==
    IF real_list > Len(buf) THEN 0
    ELSE LET n == strlen(buf, real_list)
         IN  n + 1 + mutant_FakeSize(buf, real_list + n + 1)

\* src/groot.c:1196-1210: the first loop over the buffer, from index
\* real_list on
RECURSIVE FakeSize(_, _)
FakeSize(buf, real_list) ==
    IF real_list > Len(buf) THEN 0
    ELSE LET n == strlen(buf, real_list)
             name == SubSeq(buf, real_list, real_list + n - 1)
         IN  (IF has_prefix(name, GROOT_CUSTOM_XATTR_PREFIX)
              THEN n - Len(GROOT_CUSTOM_XATTR_PREFIX) + 1 ELSE 0)
             + FakeSize(buf, real_list + n + 1)

\* src/groot.c:1218-1230: the second loop, the bytes it copies to list
RECURSIVE CopyNames(_, _)
CopyNames(buf, real_list) ==
    IF real_list > Len(buf) THEN << >>
    ELSE LET n == strlen(buf, real_list)
             name == SubSeq(buf, real_list, real_list + n - 1)
         IN  (IF has_prefix(name, GROOT_CUSTOM_XATTR_PREFIX)
              THEN SubSeq(name, Len(GROOT_CUSTOM_XATTR_PREFIX) + 1, n) \o <<NUL>>
              ELSE << >>)
             \o CopyNames(buf, real_list + n + 1)

LxStep(l) ==
    /\ lx' = l
    /\ UNCHANGED notList

\* src/groot.c:1174-1194: one turn of the loop; the file has these names
\* at the time of the call
LxLlistxattr(names) ==
    /\ lx.pc = "list"
    /\ LET r == llistxattr(names, lx.buf_size)
       IN  IF r.res < 0
           THEN LxStep([lx EXCEPT !.real = names, !.buf_size = @ * 2])
           ELSE LxStep([lx EXCEPT !.real = names, !.buf = r.buf, !.pc = "count"])

\* src/groot.c:1190: llistxattr fails with another error
LxListFails ==
    /\ lx.pc = "list"
    /\ LxStep([lx EXCEPT !.res = -ENOTSUP, !.pc = "done"])

\* src/groot.c:1196-1232
LxReturn ==
    /\ lx.pc = "count"
    /\ LET fake_size == FakeSize(lx.buf, 1)
       IN  IF lx.size = 0 THEN LxStep([lx EXCEPT !.res = fake_size, !.pc = "done"])
           ELSE IF lx.size < fake_size
           THEN LxStep([lx EXCEPT !.res = -ERANGE, !.pc = "done"])
           ELSE LxStep([lx EXCEPT !.res = fake_size, !.out = CopyNames(lx.buf, 1),
                                  !.pc = "done"])

InitList ==
    /\ \E size \in LxSizes :
         lx = [pc |-> "list", size |-> size, buf_size |-> BufData, buf |-> << >>,
               real |-> << >>, res |-> 0, out |-> << >>]
    /\ oh = OhIdle
    /\ pl = PlIdle
    /\ fs = [max_uid |-> NS_MAX_ID, max_gid |-> NS_MAX_ID]
    /\ dirents = [n \in Names |-> 0]
    /\ inodes = [i \in Ino |-> FreeInode]
    /\ sidecar = [i \in Ino |-> NoSidecar]
    /\ pending = Idle
    /\ claims = [i \in Ino |-> NoClaims]
    /\ last = OpRec("init", "a", EOK)
    /\ nops = 0
    /\ ns = NsIdle
    /\ im = ImIdle
    /\ kc = KcIdle
    /\ rd = RdIdle
    /\ xa = XaIdle
    /\ lw = LwIdle
    /\ rc = RcIdle
    /\ sg = SgIdle

NextList ==
    \/ \E names \in LxLists : LxLlistxattr(names)
    \/ LxListFails
    \/ LxReturn

\* the call runs on its own thread and takes its next step
SpecList == InitList /\ [][NextList]_vars /\ WF_vars(NextList)

\* the names a listing must show: the backing names that begin with the
\* prefix, without it
StrippedNames(names) ==
    LET mine == SelectSeq(names, LAMBDA n : Len(n) >= Len(GROOT_CUSTOM_XATTR_PREFIX)
                     /\ SubSeq(n, 1, Len(GROOT_CUSTOM_XATTR_PREFIX)) = GROOT_CUSTOM_XATTR_PREFIX)
    IN  [k \in 1..Len(mine) |->
            SubSeq(mine[k], Len(GROOT_CUSTOM_XATTR_PREFIX) + 1, Len(mine[k]))]

RECURSIVE Needed(_)
Needed(names) ==
    IF names = << >> THEN 0 ELSE Len(Head(names)) + 1 + Needed(Tail(names))

ListxattrResult ==
    (lx.pc = "done" /\ lx.res # -ENOTSUP) =>
        LET needed == Needed(StrippedNames(lx.real))
        IN  IF lx.size = 0 THEN lx.res = needed /\ lx.out = << >>
            ELSE IF lx.size < needed THEN lx.res = -ERANGE
            ELSE /\ lx.res = needed
                 /\ lx.out = ListBytes(StrippedNames(lx.real))

\* C33: listxattr with size 0 returns the bytes needed for the stripped
\* names (each length + 1) and writes nothing; with 0 < size < needed it
\* returns ERANGE; otherwise it writes exactly the NUL-terminated stripped
\* names of the backing attributes that begin with "user.grootfs." and
\* returns their byte count; and the buffer-doubling loop ends.
C33_ListxattrSizes ==
    /\ [](ListxattrResult)
    /\ <>(lx.pc = "done")

\* a listing that needed a larger buffer and wrote two names
C33_Witness ==
    /\ lx.pc = "done"
    /\ lx.buf_size > BufData
    /\ lx.size = 14
    /\ lx.res = 3
    /\ lx.out = <<"f", NUL, NUL>>

(***************************************************************************)
(* Open file handles: src/groot.c:965 do_open, grootfs_open,               *)
(* grootfs_create, grootfs_fgetattr, grootfs_release                       *)
(*                                                                         *)
(* oh is a record:                                                         *)
(*   bk        the backing directory (entries, inodes, sidecars)           *)
(*   fds       the driver's descriptor table: the inode each descriptor    *)
(*             is open on, 0 for a descriptor that is not open             *)
(*   handles   the file handles FUSE holds: returned and not released      *)
(*   last, n   the call that just returned; the number of calls made       *)
(***************************************************************************)
MaxOpenOps == 3
Fds == 1..MaxOpenOps

OhCall(op, res) ==
    [op |-> op, res |-> res, fh |-> 0, ino |-> 0, created |-> FALSE, st |-> NoSt]

OpenFds(o) == {fd \in Fds : o.fds[fd] # 0}

\* the descriptor openat, or open_parent_dirfd, returns: the lowest free one
NewFd(o) == CHOOSE fd \in Fds \ OpenFds(o) : \A g \in Fds \ OpenFds(o) : fd <= g

\* fstat (fd, &st)
fstat(bk, i) ==
    [res |-> EOK, st_mode |-> KindBits(bk.i[i].kind) + bk.i[i].mode,
     st_uid |-> bk.i[i].uid, st_gid |-> bk.i[i].gid, st_ino |-> i]

OhStep(o, call) ==
    /\ oh.n < MaxOpenOps
    /\ oh' = [o EXCEPT !.last = call, !.n = oh.n + 1]
    /\ UNCHANGED notOpen

\* do_open that returns the error of set_fake_dataf without closing fd
mutant_OhOpen(path, mode, flags, cred, xok) ==
    /\ oh.pc = "run"
    /\ LET o_creat == flags # "O_RDWR"
           o_excl == flags = "O_CREAT_EXCL"
           real_mode == get_real_mode(FALSE, HasBit(mode, S_IXUSR))
           i == oh.bk.d[path]
           fd == NewFd(oh)
       IN  IF i # 0
           THEN IF o_creat /\ o_excl THEN OhStep(oh, OhCall("open", EEXIST))
                ELSE OhStep([oh EXCEPT !.fds[fd] = i, !.handles = @ \cup {fd}],
                            [OhCall("open", EOK) EXCEPT !.fh = fd, !.ino = i])
           ELSE IF ~o_creat THEN OhStep(oh, OhCall("open", ENOENT))
           ELSE \E j \in FreeInos(oh.bk) :
                  LET bk1 == NewEntry(oh.bk, path, j, "reg", real_mode)
                  IN  IF ~xok
                      THEN OhStep([oh EXCEPT !.bk = bk1, !.fds[fd] = j],
                                  [OhCall("open", EIO) EXCEPT !.ino = j, !.created = TRUE])
                      ELSE OhStep([oh EXCEPT
                                     !.bk = [bk1 EXCEPT !.i[j].xattr =
                                               Attr(fake_data_htonl(NewData(mode, cred)))],
                                     !.fds[fd] = j, !.handles = @ \cup {fd}],
                                  [OhCall("open", EOK) EXCEPT !.fh = fd, !.ino = j,
                                                              !.created = TRUE])

\* src/groot.c:965 do_open, called by grootfs_open (mode 0, no O_CREAT) and
\* grootfs_create, with no other process between its two openat calls; the
\* wrap root holds regular files only
OhOpen(path, mode, flags, cred, xok) ==
    /\ oh.pc = "run"
    /\ LET o_creat == flags # "O_RDWR"
           o_excl == flags = "O_CREAT_EXCL"
           real_mode == get_real_mode(FALSE, HasBit(mode, S_IXUSR))
           i == oh.bk.d[path]
           fd == NewFd(oh)
       IN  IF i # 0
           THEN \* the file is there: EEXIST for the caller's O_EXCL, else the
                \* openat (or its retry without the forced O_EXCL) succeeds
                IF o_creat /\ o_excl THEN OhStep(oh, OhCall("open", EEXIST))
                ELSE OhStep([oh EXCEPT !.fds[fd] = i, !.handles = @ \cup {fd}],
                            [OhCall("open", EOK) EXCEPT !.fh = fd, !.ino = i])
           ELSE IF ~o_creat THEN OhStep(oh, OhCall("open", ENOENT))
           ELSE \E j \in FreeInos(oh.bk) :
                  LET bk1 == NewEntry(oh.bk, path, j, "reg", real_mode)
                  IN  IF ~xok
                      THEN \* set_fake_dataf failed: close (fd), return res
                           OhStep([oh EXCEPT !.bk = bk1,
                                             !.fds = [[@ EXCEPT ![fd] = j] EXCEPT ![fd] = 0]],
                                  [OhCall("open", EIO) EXCEPT !.ino = j, !.created = TRUE])
                      ELSE OhStep([oh EXCEPT
                                     !.bk = [bk1 EXCEPT !.i[j].xattr =
                                               Attr(fake_data_htonl(NewData(mode, cred)))],
                                     !.fds[fd] = j, !.handles = @ \cup {fd}],
                                  [OhCall("open", EOK) EXCEPT !.fh = fd, !.ino = j,
                                                              !.created = TRUE])

\* src/groot.c:634 grootfs_fgetattr; groot_path_info_cleanup closes dirfd,
\* which groot_path_info_init_fd leaves at -1, and never info->fd
OhFgetattr(fh) ==
    /\ oh.pc = "run"
    /\ fh \in oh.handles
    /\ LET i == oh.fds[fh]
           info == groot_path_info_init_base(oh.bk, fstat(oh.bk, i), TRUE, FALSE)
       IN  OhStep(oh, [OhCall("fgetattr", info.res) EXCEPT
                          !.fh = fh, !.ino = i, !.st = info.st_data])

\* src/groot.c:684 grootfs_chown by path, on a file that may be open
OhChown(path, uid, xok) ==
    /\ oh.pc = "run"
    /\ LET r == grootfs_chown(oh.bk, path, uid, NO_ID, xok)
       IN  OhStep([oh EXCEPT !.bk = r.bk],
                  [OhCall("chown", r.res) EXCEPT !.ino = oh.bk.d[path]])

\* src/groot.c:1074 grootfs_release, which FUSE calls once for a handle
OhRelease(fh) ==
    /\ oh.pc = "run"
    /\ fh \in oh.handles
    /\ OhStep([oh EXCEPT !.fds[fh] = 0, !.handles = @ \ {fh}],
              [OhCall("release", EOK) EXCEPT !.fh = fh])

\* the wrap root before the first call: "a" is absent, or a regular file
\* without a record, with a record, or with a record of the wrong length
OhRecords ==
    {NoAttr, BadAttr, Attr(fake_data_htonl(NewData(420, [uid |-> 2, gid |-> 2])))}

InitOpen ==
    /\ \E there \in BOOLEAN, rec \in OhRecords :
         oh = [pc |-> "run",
               bk |-> [d |-> [n \in Names |-> IF n = "a" /\ there THEN 1 ELSE 0],
                       i |-> [i \in Ino |->
                                IF i = 1 /\ there
                                THEN [kind |-> "reg", mode |-> 420, uid |-> DRIVER_ID,
                                      gid |-> DRIVER_ID, xattr |-> rec]
                                ELSE FreeInode],
                       s |-> [i \in Ino |-> NoSidecar]],
               fds |-> [fd \in Fds |-> 0], handles |-> {},
               last |-> OhCall("init", EOK), n |-> 0]
    /\ pl = PlIdle
    /\ fs = [max_uid |-> NS_MAX_ID, max_gid |-> NS_MAX_ID]
    /\ dirents = [n \in Names |-> 0]
    /\ inodes = [i \in Ino |-> FreeInode]
    /\ sidecar = [i \in Ino |-> NoSidecar]
    /\ pending = Idle
    /\ claims = [i \in Ino |-> NoClaims]
    /\ last = OpRec("init", "a", EOK)
    /\ nops = 0
    /\ ns = NsIdle
    /\ im = ImIdle
    /\ kc = KcIdle
    /\ rd = RdIdle
    /\ xa = XaIdle
    /\ lw = LwIdle
    /\ rc = RcIdle
    /\ sg = SgIdle
    /\ lx = LxIdle

NextOpen ==
    \/ \E p \in Names, m \in NewModes, f \in OpenFlags, c \in Creds, xok \in BOOLEAN :
         OhOpen(p, m, f, c, xok)
    \/ \E fh \in Fds : OhFgetattr(fh)
    \/ \E p \in Names, u \in UidArgs, xok \in BOOLEAN : OhChown(p, u, xok)
    \/ \E fh \in Fds : OhRelease(fh)

SpecOpen == InitOpen /\ [][NextOpen]_vars

\* the open descriptors are exactly the handles FUSE holds
HandlesAreDescriptors ==
    /\ OpenFds(oh) = oh.handles
    /\ Cardinality(OpenFds(oh)) = Cardinality(oh.handles)
    /\ (oh.last.op = "open" /\ oh.last.res = EOK) => oh.last.fh \in oh.handles
    /\ (oh.last.op = "release") => oh.last.fh \notin OpenFds(oh)

\* fgetattr reports what getattr reports on a path of the same inode
FgetattrAsGetattr ==
    oh.last.op = "fgetattr" =>
        \A p \in Names :
            oh.bk.d[p] = oh.last.ino =>
                LET g == grootfs_getattr(oh.bk, p)
                IN  /\ g.res = oh.last.res
                    /\ g.res = EOK =>
                          /\ g.st.st_uid = oh.last.st.st_uid
                          /\ g.st.st_gid = oh.last.st.st_gid
                          /\ g.st.st_mode = oh.last.st.st_mode

\* C34: every handle a successful open or create returned stays open until
\* release and is closed once, by release; a failed open or create, also
\* one that created the file and could not write its record, leaves no
\* descriptor open, so the open backing descriptors are the handles opened
\* and not released; fgetattr on a handle reports the uid, gid and mode
\* that getattr reports on a path of the same inode.
C34_HandlesAndDescriptors ==
    (oh.pc = "run") => (HandlesAreDescriptors /\ FgetattrAsGetattr)

\* a create that made the file and failed to write its record, while an
\* earlier handle is still open
C34_Witness ==
    /\ oh.pc = "run"
    /\ oh.last.op = "open"
    /\ oh.last.res = EIO
    /\ oh.last.created
    /\ oh.handles # {}
    /\ OpenFds(oh) = oh.handles

(***************************************************************************)
(* The preload variant: src/unnamed/part_002 _groot_init_main, run by the  *)
(* loader in every process the library is injected into.                  *)
(*                                                                         *)
(* pl is a record:                                                         *)
(*   pc        where the current process of the chain is: "init" (the     *)
(*             constructor is about to run), "setup" (before               *)
(*             groot_setup_ns), "main" (the program runs), "dead"          *)
(*   env       __environ, a sequence of entries name=val                   *)
(*   setups    history: the calls of groot_setup_ns along the chain        *)
(*   execs     the number of execs so far                                  *)
(*   skipped   history: the constructor returned at its GROOT_DISABLED     *)
(*             test in the current process                                 *)
(***************************************************************************)
MaxExecs == 3

EnvEntry(name, val) == [name |-> name, val |-> val]

\* the entries the first process of the chain may start with
EnvEntries ==
    << EnvEntry("LD_PRELOAD", "libgroot.so"), EnvEntry("GROOT_DISABLED", ""),
       EnvEntry("LD_PRELOADX", "1"), EnvEntry("LD_PRELOAD", "other.so"),
       EnvEntry("GROOT_WRAPFS", "/w") >>

FirstEnvs ==
    {SelectSeq(EnvEntries, LAMBDA e : e \in S) : S \in SUBSET Range(EnvEntries)}

\* getenv (name) != NULL
HasEnv(env, name) == \E k \in 1..Len(env) : env[k].name = name

\* src/unnamed/part_002:8 __unsetenv: the loop over __environ from ep on; an
\* entry is removed when it begins with name and '=' follows
RECURSIVE unsetenv_from(_, _, _)
unsetenv_from(env, name, ep) ==
    IF ep > Len(env) THEN env
    ELSE IF env[ep].name = name
    THEN unsetenv_from(SubSeq(env, 1, ep - 1) \o SubSeq(env, ep + 1, Len(env)), name, ep)
    ELSE unsetenv_from(env, name, ep + 1)

\* setenv (name, val, 1)
setenv(env, name, val) ==
    IF HasEnv(env, name)
    THEN LET k == CHOOSE j \in 1..Len(env) :
                     env[j].name = name /\ \A i \in 1..(j - 1) : env[i].name # name
         IN  [env EXCEPT ![k].val = val]
    ELSE Append(env, EnvEntry(name, val))

PlStep(p) ==
    /\ pl' = p
    /\ UNCHANGED notPreload

\* the constructor that does not set GROOT_DISABLED
mutant_PlInitMain ==
    /\ pl.pc = "init"
    /\ LET disabled == HasEnv(pl.env, "GROOT_DISABLED")
           env1 == unsetenv_from(pl.env, "LD_PRELOAD", 1)
       IN  IF disabled
           THEN PlStep([pl EXCEPT !.env = env1, !.pc = "main", !.skipped = TRUE])
           ELSE PlStep([pl EXCEPT !.env = env1, !.pc = "setup"])

\* src/unnamed/part_002:38-50: _groot_init_main up to its setenv
PlInitMain ==
    /\ pl.pc = "init"
    /\ LET disabled == HasEnv(pl.env, "GROOT_DISABLED")
           env1 == unsetenv_from(pl.env, "LD_PRELOAD", 1)
       IN  IF disabled
           THEN PlStep([pl EXCEPT !.env = env1, !.pc = "main", !.skipped = TRUE])
           ELSE PlStep([pl EXCEPT !.env = setenv(env1, "GROOT_DISABLED", "1"),
                                  !.pc = "setup"])

\* src/unnamed/part_002:71: groot_setup_ns returns, or ends the process
PlSetupNs(ok) ==
    /\ pl.pc = "setup"
    /\ PlStep([pl EXCEPT !.setups = @ + 1, !.pc = IF ok THEN "main" ELSE "dead"])

\* the program execs the next one with its environment, after it has or has
\* not put LD_PRELOAD back; the loader injects the library when LD_PRELOAD
\* names it (or /etc/ld.so.preload does: inject)
PlExec(readd, inject) ==
    /\ pl.pc = "main"
    /\ pl.execs < MaxExecs
    /\ LET env1 == IF readd THEN setenv(pl.env, "LD_PRELOAD", "libgroot.so") ELSE pl.env
       IN  PlStep([pl EXCEPT !.env = env1, !.execs = @ + 1, !.skipped = FALSE,
                             !.pc = IF HasEnv(env1, "LD_PRELOAD") \/ inject
                                    THEN "init" ELSE "main"])

InitPreload ==
    /\ \E env \in FirstEnvs :
         pl = [pc |-> "init", env |-> env, setups |-> 0, execs |-> 0, skipped |-> FALSE]
    /\ fs = [max_uid |-> NS_MAX_ID, max_gid |-> NS_MAX_ID]
    /\ dirents = [n \in Names |-> 0]
    /\ inodes = [i \in Ino |-> FreeInode]
    /\ sidecar = [i \in Ino |-> NoSidecar]
    /\ pending = Idle
    /\ claims = [i \in Ino |-> NoClaims]
    /\ last = OpRec("init", "a", EOK)
    /\ nops = 0
    /\ ns = NsIdle
    /\ im = ImIdle
    /\ kc = KcIdle
    /\ rd = RdIdle
    /\ xa = XaIdle
    /\ lw = LwIdle
    /\ rc = RcIdle
    /\ sg = SgIdle
    /\ lx = LxIdle
    /\ oh = OhIdle

NextPreload ==
    \/ PlInitMain
    \/ \E ok \in BOOLEAN : PlSetupNs(ok)
    \/ \E readd \in BOOLEAN, inject \in BOOLEAN : PlExec(readd, inject)

SpecPreload == InitPreload /\ [][NextPreload]_vars

\* C35: along a chain of processes that exec each other with the library
\* injected, groot_setup_ns is called at most once: the constructor always
\* removes LD_PRELOAD from the environment, returns at once when
\* GROOT_DISABLED is set, and otherwise sets GROOT_DISABLED before it calls
\* groot_setup_ns.
C35_SetupAtMostOnce ==
    /\ pl.pc # "none" => pl.setups <= 1
    /\ pl.pc \in {"setup", "main", "dead"} /\ pl.execs = 0 => ~HasEnv(pl.env, "LD_PRELOAD")
    /\ pl.pc = "setup" => (HasEnv(pl.env, "GROOT_DISABLED") /\ ~HasEnv(pl.env, "LD_PRELOAD"))
    /\ (pl.pc = "main" /\ pl.skipped) => ~HasEnv(pl.env, "LD_PRELOAD")
    /\ pl.setups = 1 => HasEnv(pl.env, "GROOT_DISABLED")

\* the library injected again after a setup, and its constructor returning
\* without a second one
C35_Witness ==
    /\ pl.pc = "main"
    /\ pl.setups = 1
    /\ pl.execs >= 1
    /\ pl.skipped

\* a setxattr, getxattr or removexattr step leaves the record attribute as
\* it was and changes only attributes whose backing name has the prefix
XattrFrame ==
    (xa'.n = xa.n + 1) =>
        /\ xa'.attrs[GROOT_DATA_XATTR] = xa.attrs[GROOT_DATA_XATTR]
        /\ \A n \in BackingXattrNames :
              xa'.attrs[n] # xa.attrs[n] => has_prefix(n, GROOT_CUSTOM_XATTR_PREFIX)

\* getxattr and removexattr find nothing on a file that has the record and
\* no attribute with the prefix
XattrRecordNotRead ==
    (xa'.n = xa.n + 1 /\ xa'.last.op \in {"getxattr", "removexattr"}
       /\ \A n \in BackingXattrNames :
             has_prefix(n, GROOT_CUSTOM_XATTR_PREFIX) => xa.attrs[n] = 0)
        => xa'.last.res = ENODATA

\* C36: no setxattr, getxattr or removexattr call, whatever name the caller
\* passes (the empty name, "grootfs" and "user.grootfs" included), reads,
\* overwrites or removes the backing attribute "user.grootfs" that holds
\* the fake record; the calls touch only backing attributes whose names
\* begin with "user.grootfs.", so what getattr reports stays as it was.
C36_RecordOutOfReach == [][XattrFrame /\ XattrRecordNotRead]_vars

\* a setxattr of the caller's name "user.grootfs" on a file that has a
\* record: the record is as before and the prefixed attribute is set
C36_Witness ==
    /\ xa.last.op = "setxattr"
    /\ xa.last.name = GROOT_DATA_XATTR
    /\ xa.last.res = EOK
    /\ xa.attrs[GROOT_DATA_XATTR] = 1
    /\ xa.attrs[fake_name(GROOT_DATA_XATTR)] = 2

RenameKeepsReport ==
    (last'.op = "rename" /\ last'.res = EOK /\ nops' = nops + 1
       /\ pending.pc = "idle" /\ pending'.pc = "idle") =>
        LET from == last'.path
            i == dirents[from]
            before == grootfs_getattr(Backing, from)
        IN  /\ \E to \in Names \ {from} : dirents'[to] = i
            /\ \A to \in Names \ {from} :
                  dirents'[to] = i =>
                      grootfs_getattr(BackingAfter, to) = before
            /\ sidecar' = sidecar
            /\ \A k \in Ino : inodes'[k].kind # "free" => inodes'[k].xattr = inodes[k].xattr

FailedOpChangesNothing ==
    (last'.op \in {"chmod", "mkdir", "open"} /\ last'.res # EOK /\ nops' = nops + 1
       /\ pending.pc = "idle" /\ pending'.pc = "idle") =>
        /\ dirents' = dirents
        /\ inodes' = inodes
        /\ sidecar' = sidecar

\* C38: a driver operation that returns an error leaves the backing state
\* as it was: after a chmod that returned an error the real permission bits
\* and the record are as before, and after a mkdir or create that returned
\* an error, the failure to write the record included, there is no new
\* directory entry.
C38_ErrorsChangeNothing == [][FailedOpChangesNothing]_vars

(***************************************************************************)
(* SpecNSFair: the namespace entry with the kernel's scheduling of the two *)
(* helpers: a helper whose read, recvmsg or write can return does return.  *)
(***************************************************************************)
SpecNSFair ==
    /\ InitNS
    /\ [][NextNS]_vars
    /\ WF_vars(UReadWake)
    /\ WF_vars(MRecv)
    /\ WF_vars(MWriteAck)

\* src/groot-ns.c:356-360, 363-365: the coordinator has exited and the wake
\* byte was never written
ExitedBeforeWake == ns.cpc = "dead" /\ ~ns.wake_written

\* no newuidmap or newgidmap was invoked, and no session was started
NothingLaunched ==
    /\ ~ns.u_woken
    /\ ns.nu = "none"
    /\ ns.ng = "none"
    /\ ns.maps = {}
    /\ \A i \in Wraps(ns) : ns.sess[i] = "none"

\* C39: when the coordinator exits before it has written the wake byte, the
\* Privilege-Map Helper never invokes newuidmap or newgidmap, the Mount
\* Helper never starts a session, and both helpers come to exit: neither is
\* left blocked in its read or its receive.
C39_HelpersExitAfterEarlyDeath ==
    /\ [](ExitedBeforeWake => NothingLaunched)
    /\ (ExitedBeforeWake ~> (~UAlive(ns) /\ ~MAlive(ns)))

\* the coordinator died in prctl or unshare with a wrap whose directory
\* opened; the Privilege-Map Helper, not killed, and the Mount Helper exited
C39_Witness ==
    /\ ns.cpc = "dead"
    /\ ns.cerr \in {"prctl", "unshare"}
    /\ ns.nwraps > 0
    /\ \E i \in Wraps(ns) : ns.wrapok[i]
    /\ ns.upc = "exited"
    /\ ~ns.ukilled
    /\ ns.mpc = "exited"
    /\ NothingLaunched

=============================================================================
